---- MODULE Spec2Model ----
(***************************************************************************)
(* PDF-text cleanup and segmentation pipeline of python_useful_function.   *)
(*                                                                         *)
(* A character is its Unicode code point (a natural number), a text is a   *)
(* sequence of code points, so that the character ranges of the regular    *)
(* expressions and Python's whitespace set are the real ones.              *)
(***************************************************************************)
EXTENDS Naturals, Integers, Sequences, FiniteSets, TLC

VARIABLES
    nIn,      \* normalizer: the input text
    nOp,      \* normalizer: the pass applied ("rms", "cleanT", "cleanF")
    nOnce,    \* normalizer: result of one application
    nTwice,   \* normalizer: result of applying the pass to nOnce
    nPc,      \* normalizer: "idle" | "start" | "once" | "twice"
    sText,    \* segmenter: the input text
    sMax,     \* segmenter: max_length of the call (0 before a call)
    sOp,      \* segmenter: "m1" (method1_punctuation_advanced) | "nat" (split_text_naturally)
    sChunks,  \* segmenter: the chunks emitted, in order
    sOut,     \* segmenter: the text method1 returns
    sPc,      \* segmenter: "idle" | "start" | "done"
    sMecab,   \* segmenter: self.mecab, "none" (None) | "tagger" (a MeCab.Tagger)
    pVariant, \* batch: "adv" (AdvancedPDFExtractor) | "hfr" (HeaderFooterRemover) | "cpp" (complete_pdf_processor)
    pPages,   \* batch: the pages, each the sequence of its lines
    pCounts,  \* batch: line_counter, signature -> count
    pRepeated,\* batch: the signatures the detector returns
    pHeaders, \* batch: header signatures
    pFooters, \* batch: footer signatures
    pClean,   \* batch: the cleaned text of the pages cleaned so far, in order
    pPc,      \* batch: "idle" | "start" | "detected"
    cLine,    \* classifier: the line classified
    cPrev,    \* classifier: the lines before it on its page
    cNext,    \* classifier: the lines after it on its page
    cVariant, \* classifier: the classifier called
    cResult,  \* classifier: its answer
    cPc,      \* classifier: "idle" | "start" | "done"
    bDriver,  \* driver: "adv" (pdf_to_txt_advanced.main) | "hfr" (pdf_header_remover.main) | "cpp" (complete_pdf_processor.main)
    bArgs,    \* driver: the command line: adv [pages, auto_detect, remove] (-p, not --no-auto-detect, -r), hfr [single, keep_chapters] (input is a file, --keep-chapters)
    bFiles,   \* driver: the pages of the batch, [ok, lines] each, in page order
    bRepeated,\* driver: the boilerplate set of the file-based detectors
    bHeaders, \* driver: header patterns (adv)
    bFooters, \* driver: footer patterns (adv)
    bClean,   \* driver: page index -> cleaned text, for the pages cleaned so far
    bCarry,   \* driver: prev_line as the last cleaning call left it
    bOut,     \* driver: what was written for each page, [index, content] each, in order
    bFailed,  \* driver: the page indices whose failure was reported and passed over
    bNext,    \* driver: the index of the page the loop is at
    bPc,      \* driver: "idle" | "start" | "detected" | "done" | "aborted"
    fCaller,  \* file: "process_file" (text_formatter) | "process_text_file" (text_to_voicevox) | "text_to_voicevox_v2.main"
    fLines,   \* file: lines, the lines of the input file
    fNext,    \* file: the index of the line the filter loop is at
    fSkip,    \* file: skip_header
    fFiltered,\* file: filtered_lines
    fMethod,  \* process_file: the method applied, "none" before it is
    fMecab,   \* process_file: formatter.mecab, "none" | "tagger"
    fFormatted,\* file: the text written to the output file / handed to the speech synthesis
    fPc       \* file: "idle" | "filter" | "done" | "empty" (no text to speak)

normVars == <<nIn, nOp, nOnce, nTwice, nPc>>
segVars == <<sText, sMax, sOp, sChunks, sOut, sPc, sMecab>>
pdfVars == <<pVariant, pPages, pCounts, pRepeated, pHeaders, pFooters, pClean, pPc>>
classVars == <<cLine, cPrev, cNext, cVariant, cResult, cPc>>
batchVars ==
    <<bDriver, bArgs, bFiles, bRepeated, bHeaders, bFooters, bClean, bCarry, bOut,
      bFailed, bNext, bPc>>
fileVars == <<fCaller, fLines, fNext, fSkip, fFiltered, fMethod, fMecab, fFormatted, fPc>>
vars == <<normVars, segVars, pdfVars, classVars, batchVars, fileVars>>

(***************************************************************************)
(* Characters                                                              *)
(***************************************************************************)
TAB == 9
NL == 10
CR == 13
SP == 32
IDSP == 12288       \* U+3000 ideographic space
KUTEN == 12290      \* U+3002 ideographic full stop
TOUTEN == 12289     \* U+3001 ideographic comma
EXCL == 65281       \* U+FF01 fullwidth exclamation mark
QUES == 65311       \* U+FF1F fullwidth question mark
HIRA_A == 12354     \* U+3042
LATIN_A == 97       \* U+0061

\* str.strip() / str.rstrip() without arguments, and \s: Python's whitespace
PyWhitespace ==
    {9, 10, 11, 12, 13, 28, 29, 30, 31, 32, 133, 160, 5760}
        \cup (8192..8202) \cup {8232, 8233, 8239, 8287, 12288}

\* [​‌‍⁠﻿]
InvisibleChars == {8203, 8204, 8205, 8288, 65279}

\* [ぁ-ゔァ-ヶー一-龠々〆〇]
JpChars ==
    (12353..12436) \cup (12449..12534) \cup {12540} \cup (19968..40864)
        \cup {12293, 12294, 12295}

\* [ぁ-ゔァ-ヶー一-龠]
JpCharsNarrow ==
    (12353..12436) \cup (12449..12534) \cup {12540} \cup (19968..40864)

\* [。、！？）」』】\)]
ClosersClean == {12290, 12289, 65281, 65311, 65289, 12301, 12303, 12305, 41}

\* [（「『【\(]
OpenersClean == {65288, 12300, 12302, 12304, 40}

\* [。、！？」』）】]
ClosersRms == {12290, 12289, 65281, 65311, 12301, 12303, 65289, 12305}

\* [「『（【]
OpenersRms == {12300, 12302, 65288, 12304}

\* [年月日時分秒円個本枚冊]
UnitChars ==
    {24180, 26376, 26085, 26178, 20998, 31186, 20870, 20491, 26412, 26522, 20874}

\* \d on str: every Unicode decimal digit (category Nd), 660 code points in
\* 66 runs of ten, each run given by its digit zero; 48 is the ASCII run and
\* 65296 the fullwidth one
DigitChars ==
    UNION { d..(d + 9) : d \in
        { 48, 1632, 1776, 1984, 2406, 2534, 2662, 2790, 2918,
          3046, 3174, 3302, 3430, 3558, 3664, 3792, 3872, 4160,
          4240, 6112, 6160, 6470, 6608, 6784, 6800, 6992, 7088,
          7232, 7248, 42528, 43216, 43264, 43472, 43504, 43600,
          44016, 65296, 66720, 68912, 69734, 69872, 69942, 70096,
          70384, 70736, 70864, 71248, 71360, 71472, 71904, 72016,
          72784, 73040, 73120, 92768, 92864, 93008, 120782,
          120792, 120802, 120812, 120822, 123200, 123632, 125264,
          130032 } }

\* space_chars other than U+0020 and U+3000
SpecialSpaces == {160, 5760} \cup (8192..8202) \cup {8239, 8287}

(***************************************************************************)
(* String primitives of Python, on sequences of code points                *)
(***************************************************************************)
RECURSIVE SplitFrom(_, _, _, _)
SplitFrom(s, sep, i, cur) ==
    IF i > Len(s) THEN <<cur>>
    ELSE IF s[i] = sep THEN <<cur>> \o SplitFrom(s, sep, i + 1, <<>>)
    ELSE SplitFrom(s, sep, i + 1, Append(cur, s[i]))

\* s.split(sep) for a one-character separator
Split(s, sep) == SplitFrom(s, sep, 1, <<>>)

RECURSIVE Join(_, _)
\* sep.join(parts)
Join(parts, sep) ==
    IF parts = <<>> THEN <<>>
    ELSE IF Len(parts) = 1 THEN parts[1]
    ELSE parts[1] \o sep \o Join(Tail(parts), sep)

RECURSIVE LStripSet(_, _)
LStripSet(s, W) ==
    IF s # <<>> /\ Head(s) \in W THEN LStripSet(Tail(s), W) ELSE s

RECURSIVE RStripSet(_, _)
RStripSet(s, W) ==
    IF s # <<>> /\ s[Len(s)] \in W
    THEN RStripSet(SubSeq(s, 1, Len(s) - 1), W)
    ELSE s

\* s.strip()
Strip(s) == RStripSet(LStripSet(s, PyWhitespace), PyWhitespace)

\* s.rstrip()
RStrip(s) == RStripSet(s, PyWhitespace)

RECURSIVE RemoveChars(_, _)
\* re.sub('[W]', '', s)
RemoveChars(s, W) ==
    IF s = <<>> THEN <<>>
    ELSE IF Head(s) \in W THEN RemoveChars(Tail(s), W)
    ELSE <<Head(s)>> \o RemoveChars(Tail(s), W)

\* s.replace(a, b) for single characters, a ranging over a set
ReplaceChars(s, W, b) == [i \in 1..Len(s) |-> IF s[i] \in W THEN b ELSE s[i]]

RECURSIVE RunEnd(_, _, _)
\* the first index k >= i with s[k] # c, Len(s)+1 when there is none
RunEnd(s, c, i) ==
    IF i <= Len(s) /\ s[i] = c THEN RunEnd(s, c, i + 1) ELSE i

RECURSIVE CollapseRunsFrom(_, _, _, _, _)
\* re.sub('c{n,}', 'c' * m, s): a run of at least n characters c becomes m of
\* them, shorter runs are kept
CollapseRunsFrom(s, c, n, m, i) ==
    IF i > Len(s) THEN <<>>
    ELSE IF s[i] = c
    THEN LET k == RunEnd(s, c, i)
             r == k - i
         IN  [j \in 1..(IF r >= n THEN m ELSE r) |-> c]
                 \o CollapseRunsFrom(s, c, n, m, k)
    ELSE <<s[i]>> \o CollapseRunsFrom(s, c, n, m, i + 1)

CollapseRuns(s, c, n, m) == CollapseRunsFrom(s, c, n, m, 1)

RECURSIVE SubSpaceBeforeFrom(_, _, _)
\* re.sub(r' ([C])', r'\1', s): matches are found left to right and do not
\* overlap
SubSpaceBeforeFrom(s, C, i) ==
    IF i > Len(s) THEN <<>>
    ELSE IF s[i] = SP /\ i + 1 <= Len(s) /\ s[i + 1] \in C
    THEN <<s[i + 1]>> \o SubSpaceBeforeFrom(s, C, i + 2)
    ELSE <<s[i]>> \o SubSpaceBeforeFrom(s, C, i + 1)

SubSpaceBefore(s, C) == SubSpaceBeforeFrom(s, C, 1)

RECURSIVE SubSpaceAfterFrom(_, _, _)
\* re.sub(r'([O]) ', r'\1', s)
SubSpaceAfterFrom(s, O, i) ==
    IF i > Len(s) THEN <<>>
    ELSE IF s[i] \in O /\ i + 1 <= Len(s) /\ s[i + 1] = SP
    THEN <<s[i]>> \o SubSpaceAfterFrom(s, O, i + 2)
    ELSE <<s[i]>> \o SubSpaceAfterFrom(s, O, i + 1)

SubSpaceAfter(s, O) == SubSpaceAfterFrom(s, O, 1)

RECURSIVE SubSpacesBetweenFrom(_, _, _, _)
\* re.sub(r'([A]) +([B])', r'\1\2', s): a match consumes both of its
\* characters, the scan resumes after the second one
SubSpacesBetweenFrom(s, A, B, i) ==
    IF i > Len(s) THEN <<>>
    ELSE LET k == RunEnd(s, SP, i + 1)
         IN  IF s[i] \in A /\ k > i + 1 /\ k <= Len(s) /\ s[k] \in B
             THEN <<s[i], s[k]>> \o SubSpacesBetweenFrom(s, A, B, k + 1)
             ELSE <<s[i]>> \o SubSpacesBetweenFrom(s, A, B, i + 1)

SubSpacesBetween(s, A, B) == SubSpacesBetweenFrom(s, A, B, 1)

RECURSIVE ReplaceCRLF(_)
\* s.replace('\r\n', '\n').replace('\r', '\n')
ReplaceCRLF(s) ==
    IF s = <<>> THEN <<>>
    ELSE IF Head(s) = CR /\ Len(s) >= 2 /\ s[2] = NL
    THEN <<NL>> \o ReplaceCRLF(Tail(Tail(s)))
    ELSE IF Head(s) = CR THEN <<NL>> \o ReplaceCRLF(Tail(s))
    ELSE <<Head(s)>> \o ReplaceCRLF(Tail(s))

\* what open(path, 'r') gives for the content of a file: with universal
\* newlines '\r\n' and '\r' are read as '\n'
ReadText(content) == ReplaceCRLF(content)

RECURSIVE SqueezeBlank(_, _)
\* the prev_empty loop: of consecutive lines that are empty after strip()
\* only the first is kept, as ''
SqueezeBlank(lines, prevEmpty) ==
    IF lines = <<>> THEN <<>>
    ELSE IF Strip(Head(lines)) = <<>>
    THEN (IF prevEmpty THEN <<>> ELSE << <<>> >>)
             \o SqueezeBlank(Tail(lines), TRUE)
    ELSE <<Head(lines)>> \o SqueezeBlank(Tail(lines), FALSE)

(***************************************************************************)
(* Normalizer: TextFormatter.clean_text, remove_meaningless_spaces         *)
(***************************************************************************)
\* one iteration of the per-line loop of clean_text
clean_line(line, aggressive) ==
    LET body == LStripSet(line, {IDSP})
        indent == [j \in 1..(Len(line) - Len(body)) |-> IDSP]
        s1 == ReplaceChars(body, {IDSP}, SP)
        s2 == CollapseRuns(s1, SP, 2, 1)
        s3 == SubSpaceBefore(s2, ClosersClean)
        s4 == SubSpaceAfter(s3, OpenersClean)
        s5 == IF aggressive THEN SubSpacesBetween(s4, JpChars, JpChars) ELSE s4
    IN  IF ~aggressive /\ indent # <<>> THEN indent \o s5 ELSE Strip(s5)

clean_text(text, aggressive) ==
    LET t1 == RemoveChars(text, InvisibleChars)
        t2 == ReplaceChars(t1, {TAB}, SP)
        lines == Split(t2, NL)
        cleaned == [j \in 1..Len(lines) |-> clean_line(lines[j], aggressive)]
        t3 == Join(cleaned, <<NL>>)
        t4 == ReplaceCRLF(t3)
        t5 == CollapseRuns(t4, NL, 3, 2)
        l2 == Split(t5, NL)
        t6 == Join([j \in 1..Len(l2) |-> RStrip(l2[j])], <<NL>>)
    IN  Strip(t6)

\* one iteration of the per-line loop of remove_meaningless_spaces
rms_line(line0) ==
    LET line == Strip(line0)
        s1 == SubSpacesBetween(line, JpChars, JpChars)
        s2 == SubSpacesBetween(s1, JpCharsNarrow, ClosersRms)
        s3 == SubSpacesBetween(s2, OpenersRms, JpCharsNarrow)
        s4 == SubSpacesBetween(s3, DigitChars, UnitChars)
    IN  IF line = <<>> THEN <<>> ELSE CollapseRuns(s4, SP, 2, 1)

remove_meaningless_spaces(text) ==
    LET t1 == ReplaceChars(text, SpecialSpaces, SP)
        lines == Split(t1, NL)
        cleaned == [j \in 1..Len(lines) |-> rms_line(lines[j])]
    IN  Join(SqueezeBlank(cleaned, FALSE), <<NL>>)

(***************************************************************************)
(* Segmenter: TextFormatter.method1_punctuation_advanced and               *)
(* VoicevoxConverter.split_text_naturally                                  *)
(***************************************************************************)
\* [。！？]
SentenceFinal == {KUTEN, EXCL, QUES}

\* split_points: が、 けれど しかし また、 そして ので から
split_points ==
    << <<12364, 12289>>, <<12369, 12428, 12393>>, <<12375, 12363, 12375>>,
       <<12414, 12383, 12289>>, <<12381, 12375, 12390>>, <<12398, 12391>>,
       <<12363, 12425>> >>

Range(s) == {s[i] : i \in 1..Len(s)}

RECURSIVE SplitKeepFrom(_, _, _, _)
SplitKeepFrom(s, D, i, cur) ==
    IF i > Len(s) THEN <<cur>>
    ELSE IF s[i] \in D
    THEN <<Append(cur, s[i])>> \o SplitKeepFrom(s, D, i + 1, <<>>)
    ELSE SplitKeepFrom(s, D, i + 1, Append(cur, s[i]))

\* the split with the delimiters dropped instead of put back
SplitDrop(s, D) ==
    LET parts == SplitKeepFrom(s, D, 1, <<>>)
    IN  [j \in 1..Len(parts) |->
            IF j < Len(parts) THEN SubSeq(parts[j], 1, Len(parts[j]) - 1)
            ELSE parts[j]]

\* re.split(r'([D])', s) with every delimiter put back on the piece before
\* it (the range(0, len, 2) loops), and s.split(d) with d re-attached to all
\* pieces but the last: the last piece is what follows the last delimiter,
\* possibly ''
SplitKeep(s, D) == SplitKeepFrom(s, D, 1, <<>>)

RECURSIVE FindFrom(_, _, _)
FindFrom(s, p, i) ==
    IF i + Len(p) - 1 > Len(s) THEN 0
    ELSE IF SubSeq(s, i, i + Len(p) - 1) = p THEN i
    ELSE FindFrom(s, p, i + 1)

\* s.find(p) + 1: the position of the first occurrence of p in s, 0 for none
Find(s, p) == FindFrom(s, p, 1)

EndsWith(s, D) == s # <<>> /\ s[Len(s)] \in D

RECURSIVE AccumulateNoCheck(_, _, _, _)
\* the accumulation loop without its length test: every piece is appended
AccumulateNoCheck(pieces, j, temp, max) ==
    IF j > Len(pieces) THEN (IF temp # <<>> THEN <<temp>> ELSE <<>>)
    ELSE AccumulateNoCheck(pieces, j + 1, temp \o pieces[j], max)

RECURSIVE Accumulate(_, _, _, _)
\* the comma loop (temp_line / current): pieces are appended to the line in
\* progress while it stays within max, otherwise the line is emitted and the
\* piece starts the next one
Accumulate(pieces, j, temp, max) ==
    IF j > Len(pieces) THEN (IF temp # <<>> THEN <<temp>> ELSE <<>>)
    ELSE IF Len(temp) + Len(pieces[j]) <= max
    THEN Accumulate(pieces, j + 1, temp \o pieces[j], max)
    ELSE (IF temp # <<>> THEN <<temp>> ELSE <<>>)
             \o Accumulate(pieces, j + 1, pieces[j], max)

RECURSIVE FirstPoint(_, _)
\* the first entry of split_points, in list order, that occurs in cur; 0 when
\* none does
FirstPoint(cur, k) ==
    IF k > Len(split_points) THEN 0
    ELSE IF Find(cur, split_points[k]) # 0 THEN k
    ELSE FirstPoint(cur, k + 1)

RECURSIVE method1_loop(_, _, _, _, _)
\* the for loop over the sentences: the result is the lines list and the
\* current_sentence left over
method1_loop(parts, i, cur0, lines, max) ==
    IF i > Len(parts) THEN [lines |-> lines, cur |-> cur0]
    ELSE
      LET cur == cur0 \o parts[i]
      IN  IF Len(cur) > max
          THEN IF TOUTEN \in Range(cur)
               THEN method1_loop(parts, i + 1, <<>>,
                        lines \o Accumulate(SplitKeep(cur, {TOUTEN}), 1, <<>>, max), max)
               ELSE LET k == FirstPoint(cur, 1)
                    IN  IF k # 0
                        THEN LET point == split_points[k]
                                 at == Find(cur, point)
                             IN  method1_loop(parts, i + 1,
                                     SubSeq(cur, at + Len(point), Len(cur)),
                                     Append(lines, SubSeq(cur, 1, at - 1) \o point), max)
                        ELSE method1_loop(parts, i + 1, <<>>, Append(lines, cur), max)
          ELSE IF EndsWith(cur, SentenceFinal)
               THEN method1_loop(parts, i + 1, <<>>, Append(lines, cur), max)
               ELSE method1_loop(parts, i + 1, cur, lines, max)

\* the lines list of method1_punctuation_advanced before the formatting loop
method1_lines(text, max) ==
    LET r == method1_loop(SplitKeep(text, SentenceFinal), 1, <<>>, <<>>, max)
    IN  IF r.cur # <<>> THEN Append(r.lines, r.cur) ELSE r.lines

RECURSIVE method1_format(_)
\* the formatting loop: lines are stripped, empty ones dropped, and an empty
\* line follows every line that ends with 。 and is longer than 30
method1_format(lines) ==
    IF lines = <<>> THEN <<>>
    ELSE LET line == Strip(Head(lines))
         IN  (IF line = <<>> THEN <<>>
              ELSE IF line[Len(line)] = KUTEN /\ Len(line) > 30
              THEN <<line, <<>> >>
              ELSE <<line>>)
                 \o method1_format(Tail(lines))

method1_punctuation_advanced(text, max_length) ==
    Join(method1_format(method1_lines(text, max_length)), <<NL>>)

NAT_MAX_LENGTH == 150
NAT_MIN_LENGTH == 20

RECURSIVE nat_merged(_)
\* the merged list: the sentences that are not empty after strip(), stripped
nat_merged(parts) ==
    IF parts = <<>> THEN <<>>
    ELSE (IF Strip(Head(parts)) # <<>> THEN <<Strip(Head(parts))>> ELSE <<>>)
             \o nat_merged(Tail(parts))

RECURSIVE nat_result(_)
\* the result list: sentences over MAX_LENGTH are re-split on 、
nat_result(merged) ==
    IF merged = <<>> THEN <<>>
    ELSE (IF Len(Head(merged)) <= NAT_MAX_LENGTH THEN <<Head(merged)>>
          ELSE Accumulate(SplitKeep(Head(merged), {TOUTEN}), 1, <<>>, NAT_MAX_LENGTH))
             \o nat_result(Tail(merged))

RECURSIVE nat_final(_, _, _)
\* the final loop: a sentence under MIN_LENGTH is appended to temp, the chunk
\* in progress, when there is one and the sum stays within MAX_LENGTH
nat_final(result, j, temp) ==
    IF j > Len(result) THEN (IF temp # <<>> THEN <<temp>> ELSE <<>>)
    ELSE LET sentence == result[j]
         IN  IF Len(sentence) < NAT_MIN_LENGTH /\ temp # <<>>
             THEN IF Len(temp) + Len(sentence) <= NAT_MAX_LENGTH
                  THEN nat_final(result, j + 1, temp \o sentence)
                  ELSE <<temp>> \o nat_final(result, j + 1, sentence)
             ELSE (IF temp # <<>> THEN <<temp>> ELSE <<>>)
                      \o nat_final(result, j + 1, sentence)

split_text_naturally(text) ==
    nat_final(nat_result(nat_merged(SplitKeep(text, SentenceFinal))), 1, <<>>)

\* the parts of speech that end a bunsetsu: 助詞, 助動詞, 記号
BunsetsuEndPos == {"joshi", "jodoshi", "kigo"}

RECURSIVE method3_loop(_, _, _, _)
\* the while loop of method3_morphological over the nodes of the analyzer
method3_loop(nodes, k, current_line, max_length) ==
    IF k > Len(nodes)
    THEN (IF current_line # <<>> THEN <<current_line>> ELSE <<>>)
    ELSE LET word == nodes[k].surface
             cur1 == current_line \o word
             brk1 == nodes[k].pos \in BunsetsuEndPos /\ Len(cur1) >= max_length
             cur2 == IF brk1 THEN <<>> ELSE cur1
             brk2 == word \in {<<KUTEN>>, <<EXCL>>, <<QUES>>}
             cur3 == IF brk2 THEN <<>> ELSE cur2
         IN  (IF brk1 THEN <<cur1>> ELSE <<>>)
                 \o (IF brk2 THEN <<cur2>> ELSE <<>>)
                 \o method3_loop(nodes, k + 1, cur3, max_length)

\* method3_morphological without the test of self.mecab
method3_no_fallback(text, max_length, mecab, nodes) ==
    Join(method3_loop(nodes, 1, <<>>, max_length), <<NL>>)

\* TextFormatter.method3_morphological; nodes is what parseToNode(text) yields
method3_morphological(text, max_length, mecab, nodes) ==
    IF mecab = "none"
    THEN method1_punctuation_advanced(text, max_length)
    ELSE Join(method3_loop(nodes, 1, <<>>, max_length), <<NL>>)

\* the alternatives of the first three break_patterns, in pattern order:
\* は、|が、|を、|に、|で、|と、|から、|まで、|より、
break_particles ==
    << <<12399, TOUTEN>>, <<12364, TOUTEN>>, <<12434, TOUTEN>>, <<12395, TOUTEN>>,
       <<12391, TOUTEN>>, <<12392, TOUTEN>>, <<12363, 12425, TOUTEN>>,
       <<12414, 12391, TOUTEN>>, <<12424, 12426, TOUTEN>> >>

\* という|といった|などの|ような|ために
break_modifiers ==
    << <<12392, 12356, 12358>>, <<12392, 12356, 12387, 12383>>,
       <<12394, 12393, 12398>>, <<12424, 12358, 12394>>, <<12383, 12417, 12395>> >>

\* であり、|であって、|ですが、|ですけれど、
break_copulas ==
    << <<12391, 12354, 12426, TOUTEN>>, <<12391, 12354, 12387, 12390, TOUTEN>>,
       <<12391, 12377, 12364, TOUTEN>>,
       <<12391, 12377, 12369, 12428, 12393, TOUTEN>> >>

RECURSIVE FirstAltAt(_, _, _, _)
\* the first alternative, in order, that matches s at position i; 0 for none
FirstAltAt(s, i, alts, k) ==
    IF k > Len(alts) THEN 0
    ELSE IF i + Len(alts[k]) - 1 <= Len(s)
              /\ SubSeq(s, i, i + Len(alts[k]) - 1) = alts[k]
    THEN k
    ELSE FirstAltAt(s, i, alts, k + 1)

RECURSIVE SubBreakAfter(_, _, _)
\* re.sub(r'(a1|a2|...)', r'\1\n', s)
SubBreakAfter(s, alts, i) ==
    IF i > Len(s) THEN <<>>
    ELSE LET k == FirstAltAt(s, i, alts, 1)
         IN  IF k # 0
             THEN alts[k] \o <<NL>> \o SubBreakAfter(s, alts, i + Len(alts[k]))
             ELSE <<s[i]>> \o SubBreakAfter(s, alts, i + 1)

RECURSIVE InsertAfter(_, _, _)
\* s.replace(c, c + ins)
InsertAfter(s, c, ins) ==
    IF s = <<>> THEN <<>>
    ELSE (IF Head(s) = c THEN <<c>> \o ins ELSE <<Head(s)>>)
             \o InsertAfter(Tail(s), c, ins)

RECURSIVE LongPhraseEnd(_, _, _)
\* where a match of 、.{20,}?、 that starts at s[i] ends, trying the closing 、
\* at position j and then further right: . matches no line break; 0 for no
\* match
LongPhraseEnd(s, i, j) ==
    IF j > Len(s) THEN 0
    ELSE IF \E k \in (i + 1)..(j - 1) : s[k] = NL THEN 0
    ELSE IF s[j] = TOUTEN THEN j
    ELSE LongPhraseEnd(s, i, j + 1)

RECURSIVE SubLongPhrases(_, _)
\* re.sub(r'(、.{20,}?、)', lambda m: m.group(1).replace('、', '、\n'), s)
SubLongPhrases(s, i) ==
    IF i > Len(s) THEN <<>>
    ELSE LET j == IF s[i] = TOUTEN THEN LongPhraseEnd(s, i, i + 21) ELSE 0
         IN  IF j # 0
             THEN InsertAfter(SubSeq(s, i, j), TOUTEN, <<NL>>) \o SubLongPhrases(s, j + 1)
             ELSE <<s[i]>> \o SubLongPhrases(s, i + 1)

\* the text of method4_semantic_breaks after the break patterns and the
\* collapse of line breaks
method4_breaks(text) ==
    LET r1 == SubBreakAfter(text, break_particles, 1)
        r2 == SubBreakAfter(r1, break_modifiers, 1)
        r3 == SubBreakAfter(r2, break_copulas, 1)
        r4 == SubLongPhrases(r3, 1)
    IN  CollapseRuns(r4, NL, 3, 2)

RECURSIVE method4_merge(_, _, _)
\* the merging loop of method4_semantic_breaks: merged_lines
method4_merge(lines, j, temp_line) ==
    IF j > Len(lines) THEN (IF temp_line # <<>> THEN <<temp_line>> ELSE <<>>)
    ELSE LET line == Strip(lines[j])
         IN  IF Len(line) < 10 /\ temp_line # <<>>
             THEN method4_merge(lines, j + 1, temp_line \o line)
             ELSE (IF temp_line # <<>> THEN <<temp_line>> ELSE <<>>)
                      \o method4_merge(lines, j + 1, line)

\* TextFormatter.method4_semantic_breaks: merged_lines
method4_lines(text) == method4_merge(Split(method4_breaks(text), NL), 1, <<>>)

method4_semantic_breaks(text) == Join(method4_lines(text), <<NL>>)

RECURSIVE BreakThirdComma(_, _, _)
\* the character loop of method6_clean_only: a line break after every third 、
BreakThirdComma(part, i, count) ==
    IF i > Len(part) THEN <<>>
    ELSE IF part[i] = TOUTEN
    THEN IF count + 1 = 3
         THEN <<TOUTEN, NL>> \o BreakThirdComma(part, i + 1, 0)
         ELSE <<TOUTEN>> \o BreakThirdComma(part, i + 1, count + 1)
    ELSE <<part[i]>> \o BreakThirdComma(part, i + 1, count)

\* one iteration of the per-line loop of method6_clean_only: what is appended
\* to result
method6_line(line0) ==
    LET line == Strip(line0)
        parts == Split(InsertAfter(line, KUTEN, <<NL>>), NL)
        new_parts ==
            [j \in 1..Len(parts) |->
                IF Len(SelectSeq(parts[j], LAMBDA c : c = TOUTEN)) > 3
                     /\ Len(parts[j]) > 60
                THEN BreakThirdComma(parts[j], 1, 0)
                ELSE parts[j]]
    IN  IF line = <<>> THEN <<>>
        ELSE IF Len(line) > 80 THEN Join(new_parts, <<NL>>)
        ELSE line

\* the result list of method6_clean_only, before the blank lines are squeezed
method6_result(text) ==
    LET lines == Split(clean_text(remove_meaningless_spaces(text), TRUE), NL)
    IN  [j \in 1..Len(lines) |-> method6_line(lines[j])]

\* TextFormatter.method6_clean_only
method6_clean_only(text) ==
    Join(SqueezeBlank(method6_result(text), FALSE), <<NL>>)

\* the tag '[pau:a.b]'
Pause(a, b) == <<91, 112, 97, 117, 58, 48 + a, 46, 48 + b, 93>>

RECURSIVE InsertBefore(_, _, _)
\* re.sub(c, ins + c, s)
InsertBefore(s, c, ins) ==
    IF s = <<>> THEN <<>>
    ELSE (IF Head(s) = c THEN ins \o <<c>> ELSE <<Head(s)>>)
             \o InsertBefore(Tail(s), c, ins)

RECURSIVE SubParagraphBreaks(_, _, _)
\* re.sub(r'\n\n+', repl, s) from s[i] on: a run of two or more line breaks
\* becomes repl, a single line break is kept
SubParagraphBreaks(s, repl, i) ==
    IF i > Len(s) THEN <<>>
    ELSE IF s[i] = NL
    THEN LET k == RunEnd(s, NL, i)
         IN  (IF k - i >= 2 THEN repl ELSE <<NL>>) \o SubParagraphBreaks(s, repl, k)
    ELSE <<s[i]>> \o SubParagraphBreaks(s, repl, i + 1)

\* TextFormatter.method2_voicevox_tags
method2_voicevox_tags(text) ==
    LET t1 == InsertAfter(text, KUTEN, Pause(0, 8))
        t2 == InsertAfter(t1, TOUTEN, Pause(0, 3))
        t3 == InsertAfter(t2, EXCL, Pause(0, 8))
        t4 == InsertAfter(t3, QUES, Pause(0, 8))
        t5 == SubParagraphBreaks(t4, <<NL>> \o Pause(1, 5) \o <<NL>>, 1)
        t6 == InsertBefore(t5, 12300, Pause(0, 2))                  \* 「
    IN  InsertAfter(t6, 12301, Pause(0, 2))                         \* 」

\* TextFormatter.method5_hybrid
method5_hybrid(text) ==
    method1_punctuation_advanced(
        clean_text(remove_meaningless_spaces(text), TRUE), 45)

(***************************************************************************)
(* Regular expressions: a pattern is a sequence of items, an item matches  *)
(* one character of a class, once or any number of times.  re.match        *)
(* succeeds when some way of matching the items from the start of the      *)
(* string exists.                                                          *)
(***************************************************************************)
One(S) == << [cls |-> S, star |-> FALSE] >>
Star(S) == << [cls |-> S, star |-> TRUE] >>
Plus(S) == One(S) \o Star(S)
Lit(w) == [j \in 1..Len(w) |-> [cls |-> {w[j]}, star |-> FALSE]]

RECURSIVE MatchEnds(_, _, _, _)
\* the positions at which a match of pat[k..] that starts at s[i] can end
MatchEnds(s, i, pat, k) ==
    IF k > Len(pat) THEN {i}
    ELSE LET here == i <= Len(s) /\ s[i] \in pat[k].cls
         IN  IF pat[k].star
             THEN MatchEnds(s, i, pat, k + 1)
                      \cup (IF here THEN MatchEnds(s, i + 1, pat, k) ELSE {})
             ELSE IF here THEN MatchEnds(s, i + 1, pat, k + 1) ELSE {}

\* re.match(pat, s) for a pattern without $
ReMatch(s, pat) == MatchEnds(s, 1, pat, 1) # {}

\* re.match(pat + '$', s): $ matches at the end and before a final newline
ReMatchEnd(s, pat) ==
    LET ends == MatchEnds(s, 1, pat, 1)
    IN  (Len(s) + 1) \in ends \/ (s # <<>> /\ s[Len(s)] = NL /\ Len(s) \in ends)

Dashes == {45, 8208}            \* [-‐]

\* ^\s*\d+\s*$
PatBareNumber == Star(PyWhitespace) \o Plus(DigitChars) \o Star(PyWhitespace)

\* ^\s*[-‐]\s*\d+\s*[-‐]\s*$
PatDashNumber ==
    Star(PyWhitespace) \o One(Dashes) \o Star(PyWhitespace) \o Plus(DigitChars)
        \o Star(PyWhitespace) \o One(Dashes) \o Star(PyWhitespace)

\* ^\s*\[\s*\d+\s*\]\s*$
PatBracketNumber ==
    Star(PyWhitespace) \o One({91}) \o Star(PyWhitespace) \o Plus(DigitChars)
        \o Star(PyWhitespace) \o One({93}) \o Star(PyWhitespace)

\* ^\s*\(\s*\d+\s*\)\s*$
PatParenNumber ==
    Star(PyWhitespace) \o One({40}) \o Star(PyWhitespace) \o Plus(DigitChars)
        \o Star(PyWhitespace) \o One({41}) \o Star(PyWhitespace)

\* ^P\.\s*\d+ and ^p\.\s*\d+
PatUpperP == Lit(<<80, 46>>) \o Star(PyWhitespace) \o Plus(DigitChars)
PatLowerP == Lit(<<112, 46>>) \o Star(PyWhitespace) \o Plus(DigitChars)

PageWord == <<12506, 12540, 12472>>     \* ページ

\* ^\d+\s*ページ and ^ページ\s*\d+
PatNumberPage == Plus(DigitChars) \o Star(PyWhitespace) \o Lit(PageWord)
PatPageNumber == Lit(PageWord) \o Star(PyWhitespace) \o Plus(DigitChars)

\* [一二三四五六七八九十\d]
KanjiNumerals ==
    {19968, 20108, 19977, 22235, 20116, 20845, 19971, 20843, 20061, 21313}
        \cup DigitChars

DAI == 31532        \* 第
SHOU == 31456       \* 章
SETSU == 31680      \* 節
BU == 37096         \* 部

KwChapter == <<67, 104, 97, 112, 116, 101, 114>>    \* Chapter
KwSection == <<83, 101, 99, 116, 105, 111, 110>>    \* Section
KwPart == <<80, 97, 114, 116>>                      \* Part

\* the patterns of chapter_patterns that end with $ ...
chapter_patterns_end ==
    {PatBareNumber, PatDashNumber, PatBracketNumber, PatParenNumber}

\* ... and those that do not
chapter_patterns_open ==
    { Lit(<<DAI>>) \o Plus(KanjiNumerals) \o Lit(<<SHOU>>),
      Lit(<<DAI>>) \o Plus(KanjiNumerals) \o Lit(<<SETSU>>),
      Lit(<<DAI>>) \o Plus(KanjiNumerals) \o Lit(<<BU>>),
      Plus(DigitChars) \o Lit(<<46>>) \o Plus(DigitChars),
      Plus(DigitChars) \o Lit(<<SHOU>>),
      Plus(DigitChars) \o Lit(<<SETSU>>),
      Lit(KwChapter) \o Plus(PyWhitespace) \o Plus(DigitChars),
      Lit(KwSection) \o Plus(PyWhitespace) \o Plus(DigitChars),
      Lit(KwPart) \o Plus(PyWhitespace) \o Plus(DigitChars),
      PatUpperP, PatLowerP, PatNumberPage, PatPageNumber }

\* any(keyword in line for keyword in kws)
ContainsAny(line, kws) == \E kw \in kws : Find(line, kw) # 0

(***************************************************************************)
(* Chapter/Sidebar Classifier                                              *)
(***************************************************************************)
\* complete_pdf_processor.is_sidebar_title, with the cutoff as a parameter
is_sidebar_title_cut(line0, cutoff) ==
    LET line == Strip(line0)
    IN  \/ /\ Len(line) <= cutoff
           /\ ContainsAny(line,
                  { <<DAI>>, <<SHOU>>, <<SETSU>>, <<BU>>, KwChapter, KwSection,
                    KwPart, <<32232>>, <<38917>>, <<26465>>, <<27454>>, <<21495>> })
        \/ ReMatchEnd(line, PatBareNumber)
        \/ \E pat \in {PatDashNumber, PatBracketNumber, PatParenNumber} :
               ReMatchEnd(line, pat)
        \/ \E pat \in {PatUpperP, PatLowerP, PatNumberPage, PatPageNumber} :
               ReMatch(line, pat)

\* complete_pdf_processor.is_sidebar_title: len(line) <= 30
is_sidebar_title(line0) == is_sidebar_title_cut(line0, 30)

\* HeaderFooterRemover.is_chapter_title: len(line) < 30
is_chapter_title(line0) ==
    LET line == Strip(line0)
    IN  \/ \E pat \in chapter_patterns_end : ReMatchEnd(line, pat)
        \/ \E pat \in chapter_patterns_open : ReMatch(line, pat)
        \/ /\ Len(line) < 30
           /\ ContainsAny(line,
                  {<<SHOU>>, <<SETSU>>, <<BU>>, KwChapter, KwSection, KwPart})

\* the page-number test of detect_sidebar_titles that matches nothing
NoPageNumberLine(line) == FALSE

\* the page-number test of detect_sidebar_titles, on the raw line
IsPageNumberLine(line) ==
    ReMatchEnd(line, PatBareNumber) \/ ReMatchEnd(line, PatDashNumber)

\* AdvancedPDFExtractor.detect_sidebar_titles: the set of 1-based indices
detect_sidebar_titles(lines) ==
    { i \in 1..Len(lines) :
        /\ Strip(lines[i]) # <<>>
        /\ \/ /\ Len(Strip(lines[i])) <= 20
              /\ ContainsAny(lines[i],
                     {<<DAI>>, <<SHOU>>, KwChapter, KwSection, <<SETSU>>})
              /\ \/ i = 1 \/ Strip(lines[i - 1]) = <<>>
                 \/ i = Len(lines) \/ Strip(lines[i + 1]) = <<>>
           \/ IsPageNumberLine(lines[i]) }

(***************************************************************************)
(* Boilerplate Detector                                                    *)
(***************************************************************************)
NumToken == <<91, 78, 85, 77, 93>>          \* [NUM]
DateToken == <<91, 68, 65, 84, 69, 93>>     \* [DATE]

RECURSIVE SubDigitRuns(_, _)
\* re.sub(r'\d+', '[NUM]', text)
SubDigitRuns(s, i) ==
    IF i > Len(s) THEN <<>>
    ELSE IF s[i] \in DigitChars
    THEN LET k == CHOOSE k \in (i + 1)..(Len(s) + 1) :
                      /\ \A j \in i..(k - 1) : s[j] \in DigitChars
                      /\ (k > Len(s) \/ s[k] \notin DigitChars)
         IN  NumToken \o SubDigitRuns(s, k)
    ELSE <<s[i]>> \o SubDigitRuns(s, i + 1)

\* \d{4}[年/-]\d{1,2}[月/-]\d{1,2}日?
PatDates ==
    { One(DigitChars) \o One(DigitChars) \o One(DigitChars) \o One(DigitChars)
          \o One({24180, 47, 45}) \o d1 \o One({26376, 47, 45}) \o d2 \o tail :
        d1 \in {One(DigitChars), One(DigitChars) \o One(DigitChars)},
        d2 \in {One(DigitChars), One(DigitChars) \o One(DigitChars)},
        tail \in {<<>>, One({26085})} }

Max(S) == CHOOSE x \in S : \A y \in S : y <= x

RECURSIVE SubDates(_, _)
\* re.sub(<date>, '[DATE]', text): the pattern's quantifiers are greedy and
\* every alternative that matches is a prefix of the longest one
SubDates(s, i) ==
    IF i > Len(s) THEN <<>>
    ELSE IF s[i] \notin DigitChars THEN <<s[i]>> \o SubDates(s, i + 1)
    ELSE LET ends == UNION {MatchEnds(s, i, pat, 1) : pat \in PatDates}
         IN  IF ends # {} THEN DateToken \o SubDates(s, Max(ends))
             ELSE <<s[i]>> \o SubDates(s, i + 1)

RECURSIVE JoinWords(_, _, _)
\* ' '.join(text.split())
JoinWords(s, i, out) ==
    IF i > Len(s) THEN out
    ELSE IF s[i] \in PyWhitespace THEN JoinWords(s, i + 1, out)
    ELSE LET sep == IF out # <<>> /\ s[i - 1] \in PyWhitespace THEN <<SP>> ELSE <<>>
         IN  JoinWords(s, i + 1, out \o sep \o <<s[i]>>)

\* AdvancedPDFExtractor.normalize_for_comparison
normalize_for_comparison(text) ==
    JoinWords(SubDates(SubDigitRuns(text, 1), 1), 1, <<>>)

\* lines[:k] and lines[-k:]
FirstK(lines, k) == SubSeq(lines, 1, IF Len(lines) < k THEN Len(lines) ELSE k)
LastK(lines, k) ==
    SubSeq(lines, IF Len(lines) < k THEN 1 ELSE Len(lines) - k + 1, Len(lines))

\* the signature a candidate line is counted under, <<>> when it is not counted
AdvSignature(line) ==
    IF Strip(line) = <<>> THEN <<>> ELSE normalize_for_comparison(Strip(line))

\* the number of entries of the sequence w that satisfy P
Count(w, P(_)) == Cardinality({i \in 1..Len(w) : P(w[i])})

\* what one page adds to line_counter[sig] in detect_repeated_patterns
AdvPageCount(lines, sig) ==
    Count(FirstK(lines, 3) \o LastK(lines, 3), LAMBDA l : AdvSignature(l) = sig)

RECURSIVE SumOver(_, _, _)
SumOver(pages, f(_), i) ==
    IF i > Len(pages) THEN 0 ELSE f(pages[i]) + SumOver(pages, f, i + 1)

\* the keys of line_counter
AdvCandidates(pages) ==
    { AdvSignature(l) :
        l \in UNION { Range(FirstK(pages[p], 3) \o LastK(pages[p], 3)) :
                        p \in 1..Len(pages) } }
        \ { <<>> }

\* line_counter of detect_repeated_patterns
AdvLineCounter(pages) ==
    [sig \in AdvCandidates(pages) |->
        SumOver(pages, LAMBDA lines : AdvPageCount(lines, sig), 1)]

\* the threshold test with a strict comparison
AdvQualifiesStrict(count, total_pages) == 2 * count > total_pages

\* count >= total_pages * 0.5
AdvQualifies(count, total_pages) == 2 * count >= total_pages

\* the second loop of detect_repeated_patterns: the patterns of line_counter
\* that qualify, with their counts
AdvRepeated(counter, total_pages) ==
    LET kept == {sig \in DOMAIN counter : AdvQualifies(counter[sig], total_pages)}
    IN  [sig \in kept |-> counter[sig]]

\* AdvancedPDFExtractor.detect_repeated_patterns: pattern -> count
detect_repeated_patterns(pages) == AdvRepeated(AdvLineCounter(pages), Len(pages))

\* 1 when some line of the window has the pattern, else 0
InWindow(window, pattern) ==
    IF \E i \in 1..Len(window) :
           normalize_for_comparison(Strip(window[i])) = pattern
    THEN 1 ELSE 0

\* the classification loop with ties going to the header set
AdvClassifyTiesToHeader(pages, repeated) ==
    LET top(pat) == SumOver(pages, LAMBDA lines : InWindow(FirstK(lines, 3), pat), 1)
        bottom(pat) == SumOver(pages, LAMBDA lines : InWindow(LastK(lines, 3), pat), 1)
    IN  [headers |-> {pat \in DOMAIN repeated : top(pat) >= bottom(pat)},
         footers |-> {pat \in DOMAIN repeated : ~(top(pat) >= bottom(pat))}]

\* the classification loop of identify_header_footer_patterns
AdvClassify(pages, repeated) ==
    LET top(pat) == SumOver(pages, LAMBDA lines : InWindow(FirstK(lines, 3), pat), 1)
        bottom(pat) == SumOver(pages, LAMBDA lines : InWindow(LastK(lines, 3), pat), 1)
    IN  [headers |-> {pat \in DOMAIN repeated : top(pat) > bottom(pat)},
         footers |-> {pat \in DOMAIN repeated : ~(top(pat) > bottom(pat))}]

\* AdvancedPDFExtractor.identify_header_footer_patterns
identify_header_footer_patterns(pages) ==
    AdvClassify(pages, detect_repeated_patterns(pages))

\* the lines of a text file as readlines() gives them, without their line
\* terminators
FileLines(text) ==
    LET parts == Split(ReadText(text), NL)
    IN  IF parts[Len(parts)] = <<>> THEN SubSeq(parts, 1, Len(parts) - 1) ELSE parts

\* the unique_lines of one file: the candidates of its first and last k lines
UniqueLines(lines, k, cutoff) ==
    LET cands == { Strip(w) : w \in Range(FirstK(lines, k) \o LastK(lines, k)) }
    IN  { l \in cands : l # <<>> /\ Len(l) < cutoff }

\* line_counter of the file-based detectors: the number of files that have
\* the line among their unique_lines
FileLineCounter(files, k, cutoff) ==
    [line \in UNION {UniqueLines(files[f], k, cutoff) : f \in 1..Len(files)} |->
        Cardinality({f \in 1..Len(files) : line \in UniqueLines(files[f], k, cutoff)})]

\* HeaderFooterRemover.detect_repeated_lines: count >= total_files * 0.4
detect_repeated_lines(files) ==
    LET counter == FileLineCounter(files, 5, 100)
    IN  {line \in DOMAIN counter : 5 * counter[line] >= 2 * Len(files)}

\* complete_pdf_processor.detect_repeated_patterns:
\* count >= max(2, total_files * 0.4)
cpp_detect_repeated_patterns(files) ==
    LET counter == FileLineCounter(files, 5, 150)
    IN  {line \in DOMAIN counter :
            counter[line] >= 2 /\ 5 * counter[line] >= 2 * Len(files)}

(***************************************************************************)
(* Page Cleaner                                                            *)
(***************************************************************************)
\* the duplicate test of clean_page_text: the line, at most 30 long, equals
\* one of the five lines before it
IsNearDuplicate(lines, i) ==
    /\ i > 1
    /\ Len(Strip(lines[i])) <= 30
    /\ \E j \in (IF i - 5 > 1 THEN i - 5 ELSE 1)..(i - 1) :
           Strip(lines[j]) = Strip(lines[i])

\* clean_page_text without its test against the header patterns
AdvSkippedIgnoreHeaders(lines, i, headers, footers, sidebar) ==
    \/ i \in sidebar
    \/ normalize_for_comparison(Strip(lines[i])) \in footers
    \/ ReMatchEnd(Strip(lines[i]), PatBareNumber)
    \/ IsNearDuplicate(lines, i)

\* whether clean_page_text passes line i over
AdvSkipped(lines, i, headers, footers, sidebar) ==
    \/ i \in sidebar
    \/ normalize_for_comparison(Strip(lines[i])) \in (headers \cup footers)
    \/ ReMatchEnd(Strip(lines[i]), PatBareNumber)
    \/ IsNearDuplicate(lines, i)

\* AdvancedPDFExtractor.clean_page_text
clean_page_text(lines, headers, footers) ==
    LET sidebar == detect_sidebar_titles(lines)
        keep == {i \in 1..Len(lines) : ~AdvSkipped(lines, i, headers, footers, sidebar)}
        F[i \in 0..Len(lines)] ==
            IF i = 0 THEN <<>>
            ELSE IF i \in keep THEN Append(F[i - 1], lines[i]) ELSE F[i - 1]
    IN  F[Len(lines)]

\* s.startswith(prefix)
StartsWith(s, prefix) ==
    Len(s) >= Len(prefix) /\ SubSeq(s, 1, Len(prefix)) = prefix

RECURSIVE StrRemove(_, _)
\* text.replace(pattern, '')
StrRemove(text, pattern) ==
    IF pattern = <<>> \/ Len(text) < Len(pattern) THEN text
    ELSE IF StartsWith(text, pattern)
         THEN StrRemove(SubSeq(text, Len(pattern) + 1, Len(text)), pattern)
         ELSE <<Head(text)>> \o StrRemove(Tail(text), pattern)

RegexPrefix == <<114, 101, 103, 101, 120, 58>>                  \* regex:
DigitRun == <<92, 100, 43>>                                     \* \d+

\* one pattern of remove_patterns applied to the text of a page:
\* re.sub(pattern[6:], '', text) for a pattern that starts with 'regex:',
\* text.replace(pattern, '') for any other.  The expressions told apart are
\* '\d+' and those made of ordinary characters, which match themselves
RemovePattern(text, pattern) ==
    IF StartsWith(pattern, RegexPrefix)
    THEN LET expr == SubSeq(pattern, 7, Len(pattern))
         IN  IF expr = DigitRun THEN SelectSeq(text, LAMBDA c : c \notin DigitChars)
             ELSE StrRemove(text, expr)
    ELSE StrRemove(text, pattern)

RECURSIVE RemovePatterns(_, _)
\* for pattern in remove_patterns: ...
RemovePatterns(text, remove_patterns) ==
    IF remove_patterns = <<>> THEN text
    ELSE RemovePatterns(RemovePattern(text, Head(remove_patterns)),
                        Tail(remove_patterns))

\* the per-page part of extract_clean_text: the page is cleaned, the patterns
\* of remove_patterns, if any, are taken out of its text, and the blank lines
\* are tidied
extract_clean_page(lines, headers, footers, remove_patterns) ==
    LET cleaned_lines == clean_page_text(lines, headers, footers)
        removed == IF remove_patterns = <<>> THEN cleaned_lines
                   ELSE Split(RemovePatterns(Join(cleaned_lines, <<NL>>),
                                             remove_patterns), NL)
    IN  Strip(Join(SqueezeBlank(removed, FALSE), <<NL>>))

\* ''.join(parts)
RECURSIVE Flatten(_)
Flatten(ss) == IF ss = <<>> THEN <<>> ELSE Head(ss) \o Flatten(Tail(ss))

\* f.readlines(): the lines of a text file, each with its line terminator
ReadLines(text) ==
    LET parts == Split(ReadText(text), NL)
        n == Len(parts)
    IN  [j \in 1..(IF parts[n] = <<>> THEN n - 1 ELSE n) |->
            IF j < n THEN parts[j] \o <<NL>> ELSE parts[j]]

\* prev_line carried over from the cleaning call before
CarriedPrevLine(carry) == carry

\* prev_line = "" at the start of a cleaning call
FreshPrevLine(carry) == <<>>

\* the blank-line test that never finds a blank line kept before
LastKeptBlankNever(cleaned_lines) == FALSE

\* cleaned_lines and not cleaned_lines[-1].strip()
LastKeptBlank(cleaned_lines) ==
    cleaned_lines # <<>> /\ Strip(cleaned_lines[Len(cleaned_lines)]) = <<>>

RECURSIVE hfr_loop(_, _, _, _, _, _, _)
\* the loop of clean_single_file from line i on
hfr_loop(lines, i, cleaned_lines, skip_next, prev_line, repeated_lines, remove_chapters) ==
    IF i > Len(lines) THEN [cleaned |-> cleaned_lines, prev |-> prev_line]
    ELSE LET line == lines[i]
             stripped == Strip(line)
             pass(skip) ==
                 hfr_loop(lines, i + 1, cleaned_lines, skip, prev_line, repeated_lines,
                          remove_chapters)
             keep ==
                 hfr_loop(lines, i + 1, Append(cleaned_lines, line), FALSE, line,
                          repeated_lines, remove_chapters)
         IN  IF skip_next THEN pass(FALSE)
             ELSE IF stripped = <<>>
             THEN (IF LastKeptBlank(cleaned_lines) THEN pass(FALSE) ELSE keep)
             ELSE IF stripped \in repeated_lines THEN pass(FALSE)
             ELSE IF remove_chapters /\ is_chapter_title(stripped)
             THEN pass(i + 1 <= Len(lines) /\ Strip(lines[i + 1]) = <<>>)
             ELSE IF ReMatchEnd(stripped, PatBareNumber) THEN pass(FALSE)
             ELSE IF Len(stripped) < 30 /\ Strip(prev_line) = stripped THEN pass(FALSE)
             ELSE keep

\* HeaderFooterRemover.clean_single_file on a file with the given text: the
\* text returned and prev_line as the call leaves it
clean_single_file(text, repeated_lines, remove_chapters, prev0) ==
    LET r == hfr_loop(ReadLines(text), 1, <<>>, FALSE, prev0, repeated_lines,
                      remove_chapters)
    IN  [out |-> Flatten(r.cleaned), prev |-> r.prev]

\* 'PDFファイル:', 'ページ番号:', '=' * 10
PdfHeaderMarks ==
    { <<80, 68, 70, 12501, 12449, 12452, 12523, 58>>,
      PageWord \o <<30058, 21495, 58>>,
      [j \in 1..10 |-> 61] }

RECURSIVE cpp_loop(_, _, _, _, _)
\* the first loop of clean_extracted_text from line i on
cpp_loop(lines, i, cleaned_lines, prev_line, repeated_patterns) ==
    IF i > Len(lines) THEN [cleaned |-> cleaned_lines, prev |-> prev_line]
    ELSE LET line == lines[i]
             stripped == Strip(line)
             next(cl, pl) == cpp_loop(lines, i + 1, cl, pl, repeated_patterns)
         IN  IF stripped = <<>>
             THEN (IF cleaned_lines # <<>>
                        /\ Strip(cleaned_lines[Len(cleaned_lines)]) # <<>>
                   THEN next(Append(cleaned_lines, <<>>), prev_line)
                   ELSE next(cleaned_lines, prev_line))
             ELSE IF \E m \in PdfHeaderMarks : StartsWith(stripped, m)
             THEN next(cleaned_lines, prev_line)
             ELSE IF stripped \in repeated_patterns THEN next(cleaned_lines, prev_line)
             ELSE IF is_sidebar_title(stripped) THEN next(cleaned_lines, prev_line)
             ELSE IF Len(stripped) < 50 /\ stripped = Strip(prev_line)
             THEN next(cleaned_lines, prev_line)
             ELSE next(Append(cleaned_lines, line), line)

\* complete_pdf_processor.clean_extracted_text: the text returned and
\* prev_line as the call leaves it
clean_extracted_text(text, repeated_patterns, prev0) ==
    LET r == cpp_loop(Split(text, NL), 1, <<>>, prev0, repeated_patterns)
    IN  [out |-> Strip(Join(SqueezeBlank(r.cleaned, FALSE), <<NL>>)),
         prev |-> r.prev]

(***************************************************************************)
(* Normalizer harness: a pass is applied to a text, then to its own result *)
(***************************************************************************)
MaxTextLen == 5

NormAlphabet == {HIRA_A, LATIN_A, SP, IDSP, NL, CR, KUTEN}

RECURSIVE SeqsUpTo(_, _)
\* every sequence over S of length at most n
SeqsUpTo(S, n) ==
    IF n = 0 THEN {<<>>}
    ELSE LET shorter == SeqsUpTo(S, n - 1)
         IN  shorter \cup {Append(s, c) : s \in {t \in shorter : Len(t) = n - 1}, c \in S}

NormTexts == SeqsUpTo(NormAlphabet, MaxTextLen)

NormOps == {"rms", "cleanT", "cleanF"}

ApplyNorm(op, text) ==
    CASE op = "rms" -> remove_meaningless_spaces(text)
      [] op = "cleanT" -> clean_text(text, TRUE)
      [] op = "cleanF" -> clean_text(text, FALSE)

IdlePdf ==
    /\ pVariant = "none"
    /\ pPages = <<>>
    /\ pCounts = <<>>
    /\ pRepeated = {}
    /\ pHeaders = {}
    /\ pFooters = {}
    /\ pClean = <<>>
    /\ pPc = "idle"

IdleFile ==
    /\ fCaller = "none"
    /\ fLines = <<>>
    /\ fNext = 0
    /\ fSkip = FALSE
    /\ fFiltered = <<>>
    /\ fMethod = "none"
    /\ fMecab = "none"
    /\ fFormatted = <<>>
    /\ fPc = "idle"

IdleClass ==
    /\ cLine = <<>>
    /\ cPrev = <<>>
    /\ cNext = <<>>
    /\ cVariant = "none"
    /\ cResult = FALSE
    /\ cPc = "idle"

IdleSeg ==
    /\ sText = <<>>
    /\ sMax = 0
    /\ sOp = "none"
    /\ sChunks = <<>>
    /\ sOut = <<>>
    /\ sPc = "idle"
    /\ sMecab = "none"

IdleBatch ==
    /\ bDriver = "none"
    /\ bArgs = <<>>
    /\ bFiles = <<>>
    /\ bRepeated = {}
    /\ bHeaders = {}
    /\ bFooters = {}
    /\ bClean = <<>>
    /\ bCarry = <<>>
    /\ bOut = <<>>
    /\ bFailed = {}
    /\ bNext = 0
    /\ bPc = "idle"

IdleNorm ==
    /\ nIn = <<>>
    /\ nOp = "none"
    /\ nOnce = <<>>
    /\ nTwice = <<>>
    /\ nPc = "idle"

InitNorm ==
    /\ nIn \in NormTexts
    /\ nOp = "none"
    /\ nOnce = <<>>
    /\ nTwice = <<>>
    /\ nPc = "start"
    /\ IdleSeg /\ IdlePdf /\ IdleClass /\ IdleBatch /\ IdleFile

\* a caller runs one pass over the text
NormApply(op) ==
    /\ nPc = "start"
    /\ nOp' = op
    /\ nOnce' = ApplyNorm(op, nIn)
    /\ nPc' = "once"
    /\ UNCHANGED <<nIn, nTwice>>
    /\ UNCHANGED <<segVars, pdfVars, classVars, batchVars, fileVars>>

\* the same pass is run over its own output
NormReapply ==
    /\ nPc = "once"
    /\ nTwice' = ApplyNorm(nOp, nOnce)
    /\ nPc' = "twice"
    /\ UNCHANGED <<nIn, nOp, nOnce>>
    /\ UNCHANGED <<segVars, pdfVars, classVars, batchVars, fileVars>>

NextNorm ==
    \/ \E op \in NormOps : NormApply(op)
    \/ NormReapply

SpecNorm == InitNorm /\ [][NextNorm]_vars

(***************************************************************************)
(* Line harness: the passes on texts of several lines, with blank,         *)
(* whitespace-only and indented lines                                      *)
(***************************************************************************)
MaxLineTextLen == 6

LineAlphabet == {HIRA_A, SP, IDSP, NL, CR}

LineTexts == SeqsUpTo(LineAlphabet, MaxLineTextLen)

InitLines ==
    /\ nIn \in LineTexts
    /\ nOp = "none"
    /\ nOnce = <<>>
    /\ nTwice = <<>>
    /\ nPc = "start"
    /\ IdleSeg /\ IdlePdf /\ IdleClass /\ IdleBatch /\ IdleFile

SpecLines == InitLines /\ [][NextNorm]_vars

(***************************************************************************)
(* Segmenter harness: one call of a segmenter on a text                    *)
(***************************************************************************)
MaxBlocks == 4
MaxLongBlocks == 3

Run(c, n) == [j \in 1..n |-> c]

\* the pieces the input texts are made of: runs of prose of 44 and 10
\* characters, the connective から, 、, 。, ？ and a space
SegBlocks ==
    { Run(HIRA_A, 44), Run(12356, 10), <<12363, 12425>>, <<TOUTEN>>, <<KUTEN>>,
      <<QUES>>, <<SP>> }

\* pieces of the texts that exceed split_text_naturally's MAX_LENGTH
SegLongBlocks == { Run(HIRA_A, 80), <<TOUTEN>>, <<KUTEN>>, Run(12356, 10) }

\* これはとても長い文章です、句読点がたくさんあります、読みやすくする必要があります。
ScenarioSentence ==
    <<
       12371, 12428, 12399, 12392, 12390, 12418, 38263, 12356, 25991,
       31456, 12391, 12377, 12289, 21477, 35501, 28857, 12364, 12383,
       12367, 12373, 12435, 12354, 12426, 12414, 12377, 12289, 35501,
       12415, 12420, 12377, 12367, 12377, 12427, 24517, 35201, 12364,
       12354, 12426, 12414, 12377, 12290 >>

SegTexts ==
    {Flatten(bs) : bs \in SeqsUpTo(SegBlocks, MaxBlocks)}
        \cup {Flatten(bs) : bs \in SeqsUpTo(SegLongBlocks, MaxLongBlocks)}
        \cup {ScenarioSentence}

\* max_length: 45 is method5_hybrid's, 20 the value of the comma scenario
SegMaxLengths == {20, 45}

\* the chunks of a returned text: its lines
ChunksOf(out) == IF out = <<>> THEN <<>> ELSE Split(out, NL)

InitSeg ==
    /\ sText \in SegTexts
    /\ sMax = 0
    /\ sOp = "none"
    /\ sChunks = <<>>
    /\ sOut = <<>>
    /\ sPc = "start"
    /\ sMecab = "none"
    /\ IdleNorm /\ IdlePdf /\ IdleClass /\ IdleBatch /\ IdleFile

\* method1_punctuation_advanced(text, max_length)
SegMethod1(max) ==
    /\ sPc = "start"
    /\ sOp' = "m1"
    /\ sMax' = max
    /\ sOut' = method1_punctuation_advanced(sText, max)
    /\ sChunks' = method1_format(method1_lines(sText, max))
    /\ sPc' = "done"
    /\ UNCHANGED <<sText, sMecab>>
    /\ UNCHANGED <<normVars, pdfVars, classVars, batchVars, fileVars>>

\* split_text_naturally(text)
SegNaturally ==
    /\ sPc = "start"
    /\ sOp' = "nat"
    /\ sMax' = NAT_MAX_LENGTH
    /\ sChunks' = split_text_naturally(sText)
    /\ sOut' = <<>>
    /\ sPc' = "done"
    /\ UNCHANGED <<sText, sMecab>>
    /\ UNCHANGED <<normVars, pdfVars, classVars, batchVars, fileVars>>

NextSeg ==
    \/ \E max \in SegMaxLengths : SegMethod1(max)
    \/ SegNaturally

SpecSeg == InitSeg /\ [][NextSeg]_vars

(***************************************************************************)
(* Morphological segmenter harness: method3_morphological with and without *)
(* the analyzer                                                            *)
(***************************************************************************)
M3MaxLen == 4
M3Alphabet == {HIRA_A, TOUTEN, KUTEN, 12363, 12425}     \* あ 、 。 か ら
M3Texts == SeqsUpTo(M3Alphabet, M3MaxLen)
M3MaxLengths == {2, 3}

\* a node of the analyzer
Node(surface, pos) == [surface |-> surface, pos |-> pos]

\* the node lists parseToNode may yield for a text: one node per character,
\* or the text as a single noun, between the BOS and EOS nodes
ParseToNode(mecab, text) ==
    IF mecab = "none" THEN {<<>>}
    ELSE LET pos(c) == IF c \in SentenceFinal \cup {TOUTEN} THEN "kigo"
                       ELSE IF c \in {12363, 12425} THEN "joshi" ELSE "meishi"
             bos == <<Node(<<>>, "BOS/EOS")>>
         IN  { bos \o [j \in 1..Len(text) |-> Node(<<text[j]>>, pos(text[j]))] \o bos,
               bos \o <<Node(text, "meishi")>> \o bos }

InitM3 ==
    /\ sText \in M3Texts
    /\ sMax = 0
    /\ sOp = "none"
    /\ sChunks = <<>>
    /\ sOut = <<>>
    /\ sPc = "start"
    /\ sMecab \in {"none", "tagger"}
    /\ IdleNorm /\ IdlePdf /\ IdleClass /\ IdleBatch /\ IdleFile

\* method3_morphological(text, max_length)
SegMethod3(max) ==
    /\ sPc = "start"
    /\ sOp' = "m3"
    /\ sMax' = max
    /\ \E nodes \in ParseToNode(sMecab, sText) :
           /\ sOut' = method3_morphological(sText, max, sMecab, nodes)
           /\ sChunks' = ChunksOf(method3_morphological(sText, max, sMecab, nodes))
    /\ sPc' = "done"
    /\ UNCHANGED <<sText, sMecab>>
    /\ UNCHANGED <<normVars, pdfVars, classVars, batchVars, fileVars>>

NextM3 == \E max \in M3MaxLengths : SegMethod3(max)

SpecM3 == InitM3 /\ [][NextM3]_vars

(***************************************************************************)
(* Formatter harness: method4_semantic_breaks and method6_clean_only on a  *)
(* text                                                                    *)
(***************************************************************************)
MaxFmtBlocks == 3

\* the pieces of the input texts: prose of 12 and 41 characters, は、, という,
\* 、, 。, ！ and a line break
FmtBlocks ==
    { Run(HIRA_A, 12), Run(12356, 41), <<12399, TOUTEN>>, <<12392, 12356, 12358>>,
      <<TOUTEN>>, <<KUTEN>>, <<EXCL>>, <<NL>> }

\* a line of 86 characters with five commas
CommaLine ==
    Run(12356, 41) \o <<TOUTEN, HIRA_A, TOUTEN, HIRA_A, TOUTEN, HIRA_A, TOUTEN>>
        \o Run(12356, 37) \o <<TOUTEN>>

FmtTexts ==
    {Flatten(bs) : bs \in SeqsUpTo(FmtBlocks, MaxFmtBlocks)} \cup {CommaLine}

InitFmt ==
    /\ sText \in FmtTexts
    /\ sMax = 0
    /\ sOp = "none"
    /\ sChunks = <<>>
    /\ sOut = <<>>
    /\ sPc = "start"
    /\ sMecab = "none"
    /\ IdleNorm /\ IdlePdf /\ IdleClass /\ IdleBatch /\ IdleFile

\* method4_semantic_breaks(text); sChunks is merged_lines
SegMethod4 ==
    /\ sPc = "start"
    /\ sOp' = "m4"
    /\ sOut' = method4_semantic_breaks(sText)
    /\ sChunks' = method4_lines(sText)
    /\ sPc' = "done"
    /\ UNCHANGED <<sText, sMax, sMecab>>
    /\ UNCHANGED <<normVars, pdfVars, classVars, batchVars, fileVars>>

\* method6_clean_only(text); sChunks is the result list
SegMethod6 ==
    /\ sPc = "start"
    /\ sOp' = "m6"
    /\ sOut' = method6_clean_only(sText)
    /\ sChunks' = method6_result(sText)
    /\ sPc' = "done"
    /\ UNCHANGED <<sText, sMax, sMecab>>
    /\ UNCHANGED <<normVars, pdfVars, classVars, batchVars, fileVars>>

NextFmt == SegMethod4 \/ SegMethod6

SpecFmt == InitFmt /\ [][NextFmt]_vars

(***************************************************************************)
(* Batch harness: the detector runs once over the page set, then the pages *)
(* are cleaned one by one in page order                                    *)
(***************************************************************************)
MaxPages == 3
ScenarioPages == 10

\* the decimal digits of n < 100
Digits(n) == IF n < 10 THEN <<48 + n>> ELSE <<48 + (n \div 10), 48 + (n % 10)>>

HeaderLine == <<22577, 21578, 26360, 32, 50, 48, 50, 52>>      \* 報告書 2024
ChapterLine == <<DAI, 51, SHOU>>                                \* 第3章
SameLine == <<26412, 25991, 12391, 12377, 12290>>               \* 本文です。
PnSignature == <<45, 32>> \o NumToken \o <<32, 45>>             \* - [NUM] -

\* the line of kind k on page i
RenderLine(k, i) ==
    CASE k = "pn" -> <<45, 32>> \o Digits(i) \o <<32, 45>>      \* - i -
      [] k = "hdr" -> HeaderLine
      [] k = "p1" -> Run(12354 + 2 * i, 6)                      \* prose of page i
      [] k = "p2" -> Run(12450 + 2 * i, 8)                      \* prose of page i
      [] k = "same" -> SameLine
      [] k = "numbered" ->                                      \* iページ目の本文
             Digits(i) \o PageWord \o <<30446, 12398, 26412, 25991>>
      [] k = "blank" -> <<>>
      [] k = "ws" -> <<SP>>                                     \* a space
      [] k = "crlf" -> Run(12354 + 2 * i, 6) \o <<CR>>          \* prose, '\r' at its end
      [] k = "ch" -> ChapterLine

RenderPage(shape, i) == [j \in 1..Len(shape) |-> RenderLine(shape[j], i)]

\* the shapes of the pages of the small page sets
PageShapes ==
    { <<"pn", "p1", "p2", "same">>,
      <<"p1", "p2", "pn">>,
      <<"p1", "p2", "same", "pn", "p1", "p2", "same">>,
      <<"p1", "same">>,
      <<"pn">>,
      <<>>,
      <<"hdr", "blank", "ch", "blank", "p1", "pn">> }

\* the bodies of the pages of the ten-page scenario
ScenarioBodies ==
    { <<"p1", "p2">>, <<"numbered">>, <<"p1", "p1">>, <<"ch", "blank", "p1">>,
      <<"p1", "blank", "blank", "p2">>, <<>> }

\* the scenario: every page is the header line, a body, the footer - i -
ScenarioSets ==
    { [i \in 1..ScenarioPages |->
          RenderPage(<<"hdr">> \o (IF i = 1 THEN b1 ELSE IF i = 2 THEN b2 ELSE b3)
                         \o <<"pn">>, i)] :
        b1 \in ScenarioBodies, b2 \in ScenarioBodies, b3 \in ScenarioBodies }

SmallSets ==
    UNION { { [i \in 1..n |-> RenderPage(shapes[i], i)] :
                shapes \in [1..n -> PageShapes] } : n \in 1..MaxPages }

PageSets == SmallSets \cup ScenarioSets

PdfVariants == {"adv", "hfr", "cpp"}

\* the lines of the text file a page is stored in
PageFile(lines) == FileLines(Join(lines, <<NL>>))

InitPdf ==
    /\ pVariant \in PdfVariants
    /\ pPages \in PageSets
    /\ pCounts = <<>>
    /\ pRepeated = {}
    /\ pHeaders = {}
    /\ pFooters = {}
    /\ pClean = <<>>
    /\ pPc = "start"
    /\ IdleNorm /\ IdleSeg /\ IdleClass /\ IdleBatch /\ IdleFile

\* identify_header_footer_patterns(pages_data) in extract_clean_text
PdfDetectAdv ==
    /\ pPc = "start" /\ pVariant = "adv"
    /\ LET counter == AdvLineCounter(pPages)
           repeated == AdvRepeated(counter, Len(pPages))
           hf == AdvClassify(pPages, repeated)
       IN  /\ pCounts' = counter
           /\ pRepeated' = DOMAIN repeated
           /\ pHeaders' = hf.headers
           /\ pFooters' = hf.footers
    /\ pPc' = "detected"
    /\ UNCHANGED <<pVariant, pPages, pClean>>
    /\ UNCHANGED <<normVars, segVars, classVars, batchVars, fileVars>>

\* detect_repeated_lines(text_files) in process_directory
PdfDetectHfr ==
    /\ pPc = "start" /\ pVariant = "hfr"
    /\ LET files == [p \in 1..Len(pPages) |-> PageFile(pPages[p])]
       IN  /\ pCounts' = FileLineCounter(files, 5, 100)
           /\ pRepeated' = detect_repeated_lines(files)
    /\ pPc' = "detected"
    /\ UNCHANGED <<pVariant, pPages, pHeaders, pFooters, pClean>>
    /\ UNCHANGED <<normVars, segVars, classVars, batchVars, fileVars>>

\* detect_repeated_patterns(text_files) in complete_pdf_processor.main
PdfDetectCpp ==
    /\ pPc = "start" /\ pVariant = "cpp"
    /\ LET files == [p \in 1..Len(pPages) |-> PageFile(pPages[p])]
       IN  /\ pCounts' = FileLineCounter(files, 5, 150)
           /\ pRepeated' = cpp_detect_repeated_patterns(files)
    /\ pPc' = "detected"
    /\ UNCHANGED <<pVariant, pPages, pHeaders, pFooters, pClean>>
    /\ UNCHANGED <<normVars, segVars, classVars, batchVars, fileVars>>

\* one iteration of the cleaning loop of extract_clean_text
PdfCleanNextAdv ==
    /\ pPc = "detected" /\ pVariant = "adv"
    /\ Len(pClean) < Len(pPages)
    /\ pClean' = Append(pClean,
           extract_clean_page(pPages[Len(pClean) + 1], pHeaders, pFooters, <<>>))
    /\ UNCHANGED <<pVariant, pPages, pCounts, pRepeated, pHeaders, pFooters, pPc>>
    /\ UNCHANGED <<normVars, segVars, classVars, batchVars, fileVars>>

NextPdf ==
    \/ PdfDetectAdv
    \/ PdfDetectHfr
    \/ PdfDetectCpp
    \/ PdfCleanNextAdv

SpecPdf == InitPdf /\ [][NextPdf]_vars

(***************************************************************************)
(* Window harness: pages that begin or end with blank lines go through     *)
(* the detectors                                                           *)
(***************************************************************************)
MaxLeadBlank == 5
MaxTrailBlank == 1
WinPages == 2

\* the lines between the blank lines: the header, five body lines, the footer
WinBody == <<"hdr", "p1", "p2", "same", "numbered", "p1", "pn">>

\* a page of lead blank lines, the body and trail blank lines
WinShape(lead, trail) ==
    [j \in 1..lead |-> "blank"] \o WinBody \o [j \in 1..trail |-> "blank"]

WinSets ==
    { [i \in 1..WinPages |-> RenderPage(WinShape(lead[i], trail), i)] :
        lead \in [1..WinPages -> 0..MaxLeadBlank], trail \in 0..MaxTrailBlank }

InitWin ==
    /\ pVariant \in PdfVariants
    /\ pPages \in WinSets
    /\ pCounts = <<>>
    /\ pRepeated = {}
    /\ pHeaders = {}
    /\ pFooters = {}
    /\ pClean = <<>>
    /\ pPc = "start"
    /\ IdleNorm /\ IdleSeg /\ IdleClass /\ IdleBatch /\ IdleFile

SpecWin == InitWin /\ [][NextPdf]_vars

(***************************************************************************)
(* Classifier harness: one line, on a page, is classified                  *)
(***************************************************************************)
\* これは本文中の第3章という単語を含む長い一文です
ProseWithKeyword ==
    << 12371, 12428, 12399, 26412, 25991, 20013, 12398, 31532, 51, 31456,
       12392, 12356, 12358, 21336, 35486, 12434, 21547, 12416, 38263, 12356,
       19968, 25991, 12391, 12377 >>

ClassLines ==
    { ChapterLine, ProseWithKeyword, SameLine, HeaderLine,
      <<49, 50>>,                               \* 12
      <<45, 32, 49, 50, 32, 45>>,               \* - 12 -
      <<91, 49, 93>>,                           \* [1]
      <<40, 50, 41>>,                           \* (2)
      <<80, 46, 51>>,                           \* P.3
      <<51>> \o PageWord,                       \* 3ページ
      KwChapter \o <<32, 49>>,                  \* Chapter 1
      <<49, 46, 50, 32>> \o SameLine,           \* 1.2 本文です。
      Run(HIRA_A, 31),
      <<DAI, 1635, SHOU>>,                      \* 第٣章, an Arabic-Indic digit
      <<1633, 1634>> }                          \* ١٢

\* the lines that may surround the classified line on its page
ContextLines == { <<>>, << <<>> >>, <<SameLine>> }

ClassVariants == {"is_sidebar_title", "is_chapter_title", "detect_sidebar_titles"}

InitClass ==
    /\ cLine \in ClassLines
    /\ cPrev \in ContextLines
    /\ cNext \in ContextLines
    /\ cVariant = "none"
    /\ cResult = FALSE
    /\ cPc = "start"
    /\ IdleNorm /\ IdleSeg /\ IdlePdf /\ IdleBatch /\ IdleFile

Classify(variant) ==
    /\ cPc = "start"
    /\ cVariant' = variant
    /\ cResult' =
           CASE variant = "is_sidebar_title" -> is_sidebar_title(cLine)
             [] variant = "is_chapter_title" -> is_chapter_title(cLine)
             [] variant = "detect_sidebar_titles" ->
                    (Len(cPrev) + 1) \in detect_sidebar_titles(cPrev \o <<cLine>> \o cNext)
    /\ cPc' = "done"
    /\ UNCHANGED <<cLine, cPrev, cNext>>
    /\ UNCHANGED <<normVars, segVars, pdfVars, batchVars, fileVars>>

NextClass == \E variant \in ClassVariants : Classify(variant)

SpecClass == InitClass /\ [][NextClass]_vars

PdfFileMark == <<80, 68, 70, 12501, 12449, 12452, 12523, 58>>   \* PDFファイル:
PageNumberMark == PageWord \o <<30058, 21495, 58>>             \* ページ番号:
TenEquals == [j \in 1..10 |-> 61]                               \* '=' * 10

(***************************************************************************)
(* Driver harness: a batch driver runs over the pages of a batch.          *)
(* pdf_to_txt_advanced.main gets its pages from a PDF, process_directory   *)
(* and complete_pdf_processor.main from one text file per page.  A page    *)
(* that is not ok raises when it is read (extract_text() of the page,      *)
(* open()/readlines() of the file).                                        *)
(***************************************************************************)
MaxBatchPages == 3
ParScenarioPages == 6

BatchDrivers == {"adv", "hfr", "cpp"}

BatchShapes ==
    { <<"hdr", "p1", "pn">>, <<"hdr", "pn">>, <<>>, <<"p1", "same">>,
      <<"same", "p2">> }

BatchPageKinds ==
    {[shape |-> sh, ok |-> TRUE] : sh \in BatchShapes}
        \cup {[shape |-> <<"hdr", "p1", "pn">>, ok |-> FALSE]}

BatchPage(kind, i) == [ok |-> kind.ok, lines |-> RenderPage(kind.shape, i)]

\* four pages with a running header and a page number, the third without
\* text
BatchScenarioSets ==
    { [i \in 1..4 |->
          BatchPage([shape |-> IF i = 3 THEN <<>>
                               ELSE <<"hdr", "p1", "blank", "p2", "pn">>,
                     ok |-> TRUE], i)] }

BatchSets ==
    UNION { { [i \in 1..n |-> BatchPage(kinds[i], i)] :
                kinds \in [1..n -> BatchPageKinds] } : n \in 0..MaxBatchPages }
        \cup BatchScenarioSets

\* the values of -r: none, the running header, a regular expression, and a
\* string followed by an expression of ordinary characters
RemoveLists ==
    { <<>>,
      <<HeaderLine>>,
      <<RegexPrefix \o DigitRun>>,
      <<<<26412, 25991>>, RegexPrefix \o <<12391, 12377>>>> }     \* 本文, regex:です

\* the command lines of pdf_to_txt_advanced.main: -p or not,
\* --no-auto-detect or not, and -p --no-auto-detect with the patterns of -r
AdvArgs ==
    [pages : BOOLEAN, auto_detect : BOOLEAN, remove : {<<>>}]
        \cup [pages : {TRUE}, auto_detect : {FALSE}, remove : RemoveLists \ {<<>>}]

\* the command line without options
PlainArgs == [pages |-> TRUE, auto_detect |-> TRUE, remove |-> <<>>]

\* the command lines of pdf_header_remover.main: the input is a file or a
\* directory, --keep-chapters or not
HfrArgs == [single : BOOLEAN, keep_chapters : BOOLEAN]

\* a directory, without options
PlainHfrArgs == [single |-> FALSE, keep_chapters |-> FALSE]

\* a batch whose pages 1 and 2 meet in the same short line, too rare in the
\* batch to be boilerplate
ParScenarioSets ==
    { [i \in 1..ParScenarioPages |->
          BatchPage([shape |-> IF i = 1 THEN <<"p1", "same">>
                               ELSE IF i = 2 THEN <<"same", "p2">> ELSE rest,
                     ok |-> TRUE], i)] :
        rest \in {<<"p1">>, <<"hdr", "p1", "pn">>} }

\* the batches whose pages can all be read and have text, and the scenario
ParSets ==
    {files \in BatchSets :
        \A p \in 1..Len(files) : files[p].ok /\ files[p].lines # <<>>}
        \cup ParScenarioSets

\* the text of the page: page.extract_text(), or the content of its file
PageText(page) == Join(page.lines, <<NL>>)

\* pages_data of extract_with_layout: text.split('\n') if text else [], and
\* [] for a page whose extraction raised
PagesData(files) ==
    [p \in 1..Len(files) |->
        IF files[p].ok /\ PageText(files[p]) # <<>> THEN files[p].lines ELSE <<>>]

\* the lines of the page files as the file-based detectors read them
TextFiles(files) == [p \in 1..Len(files) |-> FileLines(PageText(files[p]))]

\* what the driver makes of page p: the cleaned text, and prev_line as the
\* cleaning call leaves it
DriverClean(driver, args, files, p, repeated, headers, footers, prev0) ==
    CASE driver = "adv" ->
             [out |-> extract_clean_page(PagesData(files)[p], headers, footers,
                                         args.remove),
              prev |-> <<>>]
      [] driver = "hfr" ->
             clean_single_file(PageText(files[p]), repeated, ~args.keep_chapters,
                               prev0)
      [] driver = "cpp" ->
             LET r == clean_extracted_text(ReadText(PageText(files[p])), repeated,
                                           prev0)
             IN  [out |-> clean_text(remove_meaningless_spaces(r.out), TRUE),
                  prev |-> r.prev]

\* whether the driver writes an entry for a page with this cleaned text:
\* if text.strip() / if cleaned_text.strip() / always
DriverEmits(driver, content) ==
    IF driver = "hfr" THEN TRUE ELSE Strip(content) # <<>>

\* the file main writes for a page under -p: f.write(f"ページ番号: {n}\n");
\* f.write("=" * 50 + "\n\n"); f.write(text)
PageFileText(n, text) ==
    PageNumberMark \o <<SP>> \o Digits(n) \o <<NL>> \o Run(61, 50) \o <<NL, NL>>
        \o text

\* what main writes for a page to the one file without -p:
\* f.write(f"\n===== ページ {n} =====\n\n"); f.write(text); f.write("\n")
PageSectionText(n, text) ==
    <<NL>> \o Run(61, 5) \o <<SP>> \o PageWord \o <<SP>> \o Digits(n) \o <<SP>>
        \o Run(61, 5) \o <<NL, NL>> \o text \o <<NL>>

\* an entry put in front of the entries written so far
EmitEntryFirst(out, index, content) ==
    <<[index |-> index, content |-> content]>> \o out

\* the entry of page index is written after the entries written so far
EmitEntry(out, index, content) ==
    Append(out, [index |-> index, content |-> content])

\* f with f[p] set to v
SetAt(f, p, v) == [q \in DOMAIN f \cup {p} |-> IF q = p THEN v ELSE f[q]]

\* pdf_header_remover.main takes a file as input only if there is one
InitBatchOver(sets, advArgs, hfrArgs) ==
    /\ bDriver \in BatchDrivers
    /\ bFiles \in sets
    /\ bArgs \in CASE bDriver = "adv" -> advArgs
                  [] bDriver = "hfr" ->
                         {args \in hfrArgs : args.single => Len(bFiles) = 1}
                  [] bDriver = "cpp" -> {PlainArgs}
    /\ bRepeated = {}
    /\ bHeaders = {}
    /\ bFooters = {}
    /\ bClean = <<>>
    /\ bCarry = <<>>
    /\ bOut = <<>>
    /\ bFailed = {}
    /\ bNext = 1
    /\ bPc = "start"
    /\ IdleNorm /\ IdleSeg /\ IdlePdf /\ IdleClass /\ IdleFile

InitBatch == InitBatchOver(BatchSets, AdvArgs, HfrArgs)

\* headers, footers of extract_clean_text: what
\* identify_header_footer_patterns finds if auto_detect, else none
AdvPatterns(auto_detect, pages_data) ==
    IF auto_detect THEN identify_header_footer_patterns(pages_data)
    ELSE [headers |-> {}, footers |-> {}]

\* extract_with_layout and identify_header_footer_patterns of
\* extract_clean_text: a page whose extraction raises is reported and gets no
\* lines.  Without pages neither loop of the run has an iteration
BatchDetectAdv ==
    /\ bPc = "start" /\ bDriver = "adv"
    /\ bFailed' = {p \in 1..Len(bFiles) : ~bFiles[p].ok}
    /\ LET hf == AdvPatterns(bArgs.auto_detect, PagesData(bFiles))
       IN  /\ bHeaders' = hf.headers
           /\ bFooters' = hf.footers
    /\ bPc' = IF bFiles = <<>> THEN "done" ELSE "detected"
    /\ UNCHANGED <<bDriver, bArgs, bFiles, bRepeated, bClean, bCarry, bOut, bNext>>
    /\ UNCHANGED <<normVars, segVars, pdfVars, classVars, fileVars>>

\* pdf_header_remover.main on a file: no detection, repeated_lines = set();
\* the file is cleaned and written.  A file that cannot be read ends the run
BatchSingleFile ==
    /\ bPc = "start" /\ bDriver = "hfr" /\ bArgs.single
    /\ IF ~bFiles[1].ok
       THEN /\ bPc' = "aborted"
            /\ UNCHANGED <<bClean, bCarry, bOut>>
       ELSE LET r == DriverClean(bDriver, bArgs, bFiles, 1, {}, bHeaders, bFooters,
                                 FreshPrevLine(bCarry))
            IN  /\ bClean' = SetAt(bClean, 1, r.out)
                /\ bCarry' = r.prev
                /\ bOut' = EmitEntry(bOut, 1, r.out)
                /\ bPc' = "done"
    /\ UNCHANGED <<bDriver, bArgs, bFiles, bRepeated, bHeaders, bFooters, bFailed,
                   bNext>>
    /\ UNCHANGED <<normVars, segVars, pdfVars, classVars, fileVars>>

\* detect_repeated_lines / detect_repeated_patterns of the file drivers on a
\* directory: the files are read without a handler, a file that cannot be
\* read ends the run.  Without text files process_directory returns and
\* complete_pdf_processor.main exits with status 1
BatchDetectFiles ==
    /\ bPc = "start" /\ bDriver \in {"hfr", "cpp"}
    /\ bDriver = "hfr" => ~bArgs.single
    /\ IF bFiles = <<>>
       THEN /\ bPc' = IF bDriver = "hfr" THEN "done" ELSE "aborted"
            /\ UNCHANGED bRepeated
       ELSE IF \E p \in 1..Len(bFiles) : ~bFiles[p].ok
       THEN /\ bPc' = "aborted"
            /\ UNCHANGED bRepeated
       ELSE /\ bPc' = "detected"
            /\ bRepeated' = IF bDriver = "hfr"
                            THEN detect_repeated_lines(TextFiles(bFiles))
                            ELSE cpp_detect_repeated_patterns(TextFiles(bFiles))
    /\ UNCHANGED <<bDriver, bArgs, bFiles, bHeaders, bFooters, bClean, bCarry, bOut,
                   bFailed, bNext>>
    /\ UNCHANGED <<normVars, segVars, pdfVars, classVars, fileVars>>

\* one iteration of the cleaning loop of extract_clean_text
BatchCleanAdv ==
    /\ bPc = "detected" /\ bDriver = "adv"
    /\ bNext <= Len(bFiles)
    /\ bClean' = SetAt(bClean, bNext,
           DriverClean(bDriver, bArgs, bFiles, bNext, bRepeated, bHeaders, bFooters,
                       FreshPrevLine(bCarry)).out)
    /\ IF bNext = Len(bFiles)
       THEN bPc' = "emitting" /\ bNext' = 1
       ELSE bPc' = bPc /\ bNext' = bNext + 1
    /\ UNCHANGED <<bDriver, bArgs, bFiles, bRepeated, bHeaders, bFooters, bCarry, bOut,
                   bFailed>>
    /\ UNCHANGED <<normVars, segVars, pdfVars, classVars, fileVars>>

\* one iteration of the output loop of pdf_to_txt_advanced.main: under -p
\* the page gets a file of its own, without -p a section of the one file
BatchEmitAdv ==
    /\ bPc = "emitting" /\ bDriver = "adv"
    /\ bNext <= Len(bFiles)
    /\ bOut' = IF DriverEmits(bDriver, bClean[bNext])
               THEN EmitEntry(bOut, bNext,
                        IF bArgs.pages THEN PageFileText(bNext, bClean[bNext])
                        ELSE PageSectionText(bNext, bClean[bNext]))
               ELSE bOut
    /\ IF bNext = Len(bFiles)
       THEN bPc' = "done" /\ bNext' = bNext
       ELSE bPc' = bPc /\ bNext' = bNext + 1
    /\ UNCHANGED <<bDriver, bArgs, bFiles, bRepeated, bHeaders, bFooters, bClean, bCarry,
                   bFailed>>
    /\ UNCHANGED <<normVars, segVars, pdfVars, classVars, fileVars>>

\* one iteration of the file loop of process_directory /
\* complete_pdf_processor.main: the file is cleaned and written
BatchStepFile ==
    /\ bPc = "detected" /\ bDriver \in {"hfr", "cpp"}
    /\ bNext <= Len(bFiles)
    /\ LET r == DriverClean(bDriver, bArgs, bFiles, bNext, bRepeated, bHeaders, bFooters,
                            FreshPrevLine(bCarry))
       IN  /\ bClean' = SetAt(bClean, bNext, r.out)
           /\ bCarry' = r.prev
           /\ bOut' = IF DriverEmits(bDriver, r.out)
                      THEN EmitEntry(bOut, bNext, r.out) ELSE bOut
    /\ IF bNext = Len(bFiles)
       THEN bPc' = "done" /\ bNext' = bNext
       ELSE bPc' = bPc /\ bNext' = bNext + 1
    /\ UNCHANGED <<bDriver, bArgs, bFiles, bRepeated, bHeaders, bFooters, bFailed>>
    /\ UNCHANGED <<normVars, segVars, pdfVars, classVars, fileVars>>

NextBatch ==
    \/ BatchDetectAdv
    \/ BatchSingleFile
    \/ BatchDetectFiles
    \/ BatchCleanAdv
    \/ BatchEmitAdv
    \/ BatchStepFile

SpecBatch == InitBatch /\ [][NextBatch]_vars

(***************************************************************************)
(* Fan-out harness: after detection the pages of a batch are cleaned one   *)
(* call at a time in any order                                             *)
(***************************************************************************)
\* the fan-out is that of the command line without options
ParArgs == {PlainArgs}

InitPar == InitBatchOver(ParSets, ParArgs, {PlainHfrArgs})

\* a cleaning call for page p, whichever pages were cleaned before it
ParClean(p) ==
    /\ bPc = "detected"
    /\ p \in 1..Len(bFiles) /\ p \notin DOMAIN bClean
    /\ LET r == DriverClean(bDriver, bArgs, bFiles, p, bRepeated, bHeaders, bFooters,
                            FreshPrevLine(bCarry))
       IN  /\ bClean' = SetAt(bClean, p, r.out)
           /\ bCarry' = r.prev
    /\ UNCHANGED <<bDriver, bArgs, bFiles, bRepeated, bHeaders, bFooters, bOut, bFailed,
                   bNext, bPc>>
    /\ UNCHANGED <<normVars, segVars, pdfVars, classVars, fileVars>>

NextPar ==
    \/ BatchDetectAdv
    \/ BatchDetectFiles
    \/ \E p \in 1..ParScenarioPages : ParClean(p)

SpecPar == InitPar /\ [][NextPar]_vars

(***************************************************************************)
(* Cleaner harness: the page cleaner of each variant on pages with blank   *)
(* lines around lines it removes                                           *)
(***************************************************************************)
MaxMidLines == 3

\* the lines between the first and the last line of page 1: blank and
\* whitespace-only lines, the running header, a chapter heading, a page number
\* and prose
MidKinds == {"blank", "ws", "hdr", "ch", "pn", "p1"}

\* longer runs of removed lines between blank lines, three paragraphs, and
\* lines that end in '\r\n'
ScenarioMids ==
    { <<"blank", "hdr", "blank", "ch", "blank">>,
      <<"blank", "pn", "ws", "hdr", "blank", "ch", "blank", "blank">>,
      <<"blank", "p1", "blank", "numbered", "blank">>,
      <<"crlf", "blank", "hdr", "crlf">> }

\* page 1 is prose, the lines in between, prose; pages 2 and 3 have the
\* running header and their page number
CleanerSets ==
    { << [ok |-> TRUE, lines |-> RenderPage(<<"p2">> \o mid \o <<"same">>, 1)],
         [ok |-> TRUE, lines |-> RenderPage(<<"hdr", "p1", "pn">>, 2)],
         [ok |-> TRUE, lines |-> RenderPage(<<"hdr", "p1", "pn">>, 3)] >> :
        mid \in SeqsUpTo(MidKinds, MaxMidLines) \cup ScenarioMids }

\* the page cleaner on its own: no pattern of -r changes the text between
\* clean_page_text and the tidying of the blank lines
CleanerArgs == {args \in AdvArgs : args.pages /\ args.remove = <<>>}

\* process_directory with and without --keep-chapters
CleanerHfrArgs == {args \in HfrArgs : ~args.single}

InitCleaner == InitBatchOver(CleanerSets, CleanerArgs, CleanerHfrArgs)

\* the text the page cleaner of the variant returns for page p
PageCleaner(driver, args, files, p, repeated, headers, footers) ==
    CASE driver = "adv" ->
             extract_clean_page(PagesData(files)[p], headers, footers, args.remove)
      [] driver = "hfr" ->
             clean_single_file(PageText(files[p]), repeated, ~args.keep_chapters,
                               FreshPrevLine(<<>>)).out
      [] driver = "cpp" ->
             clean_extracted_text(ReadText(PageText(files[p])), repeated,
                                  FreshPrevLine(<<>>)).out

\* the page cleaner is called for the next page
CleanerClean ==
    /\ bPc = "detected"
    /\ bNext <= Len(bFiles)
    /\ bClean' = SetAt(bClean, bNext,
           PageCleaner(bDriver, bArgs, bFiles, bNext, bRepeated, bHeaders, bFooters))
    /\ bNext' = bNext + 1
    /\ UNCHANGED <<bDriver, bArgs, bFiles, bRepeated, bHeaders, bFooters, bCarry, bOut,
                   bFailed, bPc>>
    /\ UNCHANGED <<normVars, segVars, pdfVars, classVars, fileVars>>

NextCleaner ==
    \/ BatchDetectAdv
    \/ BatchDetectFiles
    \/ CleanerClean

SpecCleaner == InitCleaner /\ [][NextCleaner]_vars

(***************************************************************************)
(* process_file, process_text_file and the file loop of                    *)
(* text_to_voicevox_v2.main: the lines of an extracted text file go        *)
(* through the metadata filter one at a time; then process_file            *)
(* normalises, formats and writes the text, and the other two hand it to   *)
(* the speech synthesis                                                    *)
(***************************************************************************)

\* line.startswith('PDFファイル:') or line.startswith('ページ番号:')
IsMarkerLine(line) == StartsWith(line, PdfFileMark) \/ StartsWith(line, PageNumberMark)

\* the terminator test without the skip flag
IsTerminatorAnywhere(skip_header, line) == StartsWith(line, TenEquals)

\* skip_header and line.startswith('=' * 10)
IsTerminatorLine(skip_header, line) == skip_header /\ StartsWith(line, TenEquals)

\* the test that ends a skipped block: that of process_file and
\* process_text_file, and `skip and line.startswith('=')` in
\* text_to_voicevox_v2.main
IsTerminatorFor(caller, skip_header, line) ==
    IF caller = "text_to_voicevox_v2.main"
    THEN skip_header /\ StartsWith(line, <<61>>)
    ELSE IsTerminatorLine(skip_header, line)

\* the names process_file tells apart; any other name, "other" here, is
\* treated as hybrid, the default of --method
FileMethods ==
    {"punctuation", "voicevox", "morphological", "semantic", "hybrid", "clean",
     "other"}

\* the if/elif chain on method; nodes is what formatter.mecab.parseToNode
\* yields for the text when a tagger is there
FormatWith(method, text, mecab, nodes) ==
    CASE method = "punctuation" -> method1_punctuation_advanced(text, 50)
      [] method = "voicevox" -> method2_voicevox_tags(text)
      [] method = "morphological" -> method3_morphological(text, 40, mecab, nodes)
      [] method = "semantic" -> method4_semantic_breaks(text)
      [] method = "hybrid" -> method5_hybrid(text)
      [] method = "clean" -> method6_clean_only(text)
      [] OTHER -> method5_hybrid(text)

MaxFileLines == 4

\* the lines an extracted text file is made of
FileLineKinds ==
    { PdfFileMark \o <<SP, 97, 46, 112, 100, 102>>,            \* PDFファイル: a.pdf
      PageNumberMark \o <<SP, 49>>,                            \* ページ番号: 1
      TenEquals \o <<61, 61>>,                                 \* twelve '='
      [j \in 1..5 |-> 61],                                     \* five '='
      <<26412, 25991, 12391, 12377, 12290>>,                   \* 本文です。
      <<>> }

\* files whose text the methods format differently: a file with '\r\n' line
\* ends, double spaces and a run of empty lines, quotation marks and a
\* paragraph break
FileScenarios ==
    { PdfFileMark \o <<SP, 97, CR, NL>> \o TenEquals \o <<CR, NL>>
          \o <<26412, 25991, 12391, 12377, 12290, CR, NL>>,
      <<97, SP, SP, 98, NL, NL, NL, NL, 99, SP, KUTEN, SP, 100>>,
      <<12300, HIRA_A, 12301, KUTEN, NL, NL, NL, 12356, EXCL, 12356, QUES>> }

FileTexts ==
    { Join(ls, <<NL>>) : ls \in SeqsUpTo(FileLineKinds, MaxFileLines) \ {<<>>} }
        \cup FileScenarios

FileCallers == {"process_file", "process_text_file", "text_to_voicevox_v2.main"}

\* the test before filtered_lines.append(line): `if not skip_header:` in
\* process_file, `if not skip_header and line.strip():` in process_text_file,
\* `if not skip:` in text_to_voicevox_v2.main
FileKeeps(caller, skip_header, line) ==
    /\ ~skip_header
    /\ caller = "process_text_file" => Strip(line) # <<>>

\* the file is read and split: text = f.read(); lines = text.split('\n')
InitFile ==
    /\ fCaller \in FileCallers
    /\ \E text \in FileTexts : fLines = Split(ReadText(text), NL)
    /\ fMecab \in IF fCaller = "process_file" THEN {"none", "tagger"} ELSE {"none"}
    /\ fNext = 1
    /\ fSkip = FALSE
    /\ fFiltered = <<>>
    /\ fMethod = "none"
    /\ fFormatted = <<>>
    /\ fPc = "filter"
    /\ IdleNorm /\ IdleSeg /\ IdlePdf /\ IdleClass /\ IdleBatch

\* the loop is at a marker line: skip_header = True; continue
FileMarker ==
    /\ fPc = "filter" /\ fNext <= Len(fLines)
    /\ IsMarkerLine(fLines[fNext])
    /\ fSkip' = TRUE
    /\ fNext' = fNext + 1
    /\ UNCHANGED <<fCaller, fLines, fFiltered, fMethod, fMecab, fFormatted, fPc>>
    /\ UNCHANGED <<normVars, segVars, pdfVars, classVars, batchVars>>

\* the loop is at the line that ends a skipped block: skip_header = False;
\* continue
FileTerminator ==
    /\ fPc = "filter" /\ fNext <= Len(fLines)
    /\ ~IsMarkerLine(fLines[fNext])
    /\ IsTerminatorFor(fCaller, fSkip, fLines[fNext])
    /\ fSkip' = FALSE
    /\ fNext' = fNext + 1
    /\ UNCHANGED <<fCaller, fLines, fFiltered, fMethod, fMecab, fFormatted, fPc>>
    /\ UNCHANGED <<normVars, segVars, pdfVars, classVars, batchVars>>

\* the loop is at any other line: the line is appended if the caller's test
\* lets it through
FileLine ==
    /\ fPc = "filter" /\ fNext <= Len(fLines)
    /\ ~IsMarkerLine(fLines[fNext])
    /\ ~IsTerminatorFor(fCaller, fSkip, fLines[fNext])
    /\ fFiltered' = IF FileKeeps(fCaller, fSkip, fLines[fNext])
                    THEN Append(fFiltered, fLines[fNext]) ELSE fFiltered
    /\ fNext' = fNext + 1
    /\ UNCHANGED <<fCaller, fLines, fSkip, fMethod, fMecab, fFormatted, fPc>>
    /\ UNCHANGED <<normVars, segVars, pdfVars, classVars, batchVars>>

\* process_file after the loop: the lines are joined, the text is normalised,
\* formatted by the method asked for and written
FileFormat ==
    /\ fCaller = "process_file"
    /\ fPc = "filter" /\ fNext > Len(fLines)
    /\ \E text \in {remove_meaningless_spaces(Join(fFiltered, <<NL>>))} :
          \E method \in FileMethods, nodes \in ParseToNode(fMecab, text) :
              /\ fMethod' = method
              /\ fFormatted' = FormatWith(method, text, fMecab, nodes)
    /\ fPc' = "done"
    /\ UNCHANGED <<fCaller, fLines, fNext, fSkip, fFiltered, fMecab>>
    /\ UNCHANGED <<normVars, segVars, pdfVars, classVars, batchVars>>

\* process_text_file and text_to_voicevox_v2.main after the loop:
\* text = "\n".join(filtered_lines).strip(); without text the file is
\* reported empty and passed over, else the text goes to text_to_speech /
\* text_to_speech_advanced
FileSpeak ==
    /\ fCaller \in {"process_text_file", "text_to_voicevox_v2.main"}
    /\ fPc = "filter" /\ fNext > Len(fLines)
    /\ LET text == Strip(Join(fFiltered, <<NL>>))
       IN  IF text = <<>>
           THEN fPc' = "empty" /\ UNCHANGED fFormatted
           ELSE fPc' = "done" /\ fFormatted' = text
    /\ UNCHANGED <<fCaller, fLines, fNext, fSkip, fFiltered, fMethod, fMecab>>
    /\ UNCHANGED <<normVars, segVars, pdfVars, classVars, batchVars>>

NextFile == FileMarker \/ FileTerminator \/ FileLine \/ FileFormat \/ FileSpeak

SpecFile == InitFile /\ [][NextFile]_vars

(***************************************************************************)
(* The whole development: any of the harnesses                             *)
(***************************************************************************)
Init ==
    InitNorm \/ InitLines \/ InitSeg \/ InitM3 \/ InitFmt \/ InitPdf \/ InitWin
        \/ InitClass \/ InitBatch
        \/ InitPar \/ InitCleaner \/ InitFile

Next ==
    NextNorm \/ NextSeg \/ NextM3 \/ NextFmt \/ NextPdf \/ NextClass \/ NextBatch
        \/ NextPar \/ NextCleaner \/ NextFile

Spec == Init /\ [][Next]_vars

(***************************************************************************)
(* Claims                                                                  *)
(***************************************************************************)
\* C1: remove_meaningless_spaces is idempotent: applying it to its own output
\* changes nothing.
C1_RmsIdempotent ==
    (nPc = "twice" /\ nOp = "rms") => nTwice = nOnce

\* C2: clean_text is idempotent for each value of the aggressive flag:
\* applying it (same flag) to its own output changes nothing.
C2_CleanTextIdempotent ==
    (nPc = "twice" /\ nOp \in {"cleanT", "cleanF"}) => nTwice = nOnce

\* a chunk has no breakable punctuation: no 、 and no sentence-final mark
\* before its last character
NoBreakable(c) ==
    \A i \in 1..(Len(c) - 1) : c[i] \notin ({TOUTEN} \cup SentenceFinal)

\* C7: with max_length = 45 every chunk method1_punctuation_advanced emits is
\* at most 45 long, unless it has no breakable punctuation.
C7_ChunkLengthBound ==
    (sPc = "done" /\ sOp = "m1" /\ sMax = 45) =>
        \A j \in 1..Len(sChunks) :
            Len(sChunks[j]) <= 45 \/ NoBreakable(sChunks[j])

\* C8: in the segmenter's output no chunk shorter than the minimum length is
\* next to a chunk it could have been merged into (combined length within the
\* maximum length).
C8_NoMergeableShortChunk ==
    (sPc = "done" /\ sOp = "nat") =>
        \A j \in 1..(Len(sChunks) - 1) :
            (Len(sChunks[j]) < NAT_MIN_LENGTH \/ Len(sChunks[j + 1]) < NAT_MIN_LENGTH)
                => Len(sChunks[j]) + Len(sChunks[j + 1]) > NAT_MAX_LENGTH

NonEmpty(chunks) == SelectSeq(chunks, LAMBDA c : c # <<>>)

\* the text is one sentence closed by 。, longer than max, with commas, whose
\* pieces between commas (the closing piece included) each fit in max
CommaSentence(text, max) ==
    /\ Len(text) > max
    /\ text[Len(text)] = KUTEN
    /\ \A i \in 1..(Len(text) - 1) : text[i] \notin SentenceFinal
    /\ TOUTEN \in Range(text)
    /\ \A q \in Range(SplitKeep(text, {TOUTEN})) : Len(q) <= max

\* C9: a sentence longer than max_length whose pieces between commas each fit
\* in max_length comes out as several chunks, each at most max_length long,
\* every chunk but the last ending with 、, the last ending with the closing 。.
C9_CommaResplit ==
    (sPc = "done" /\ sOp = "m1" /\ CommaSentence(sText, sMax)) =>
        LET cs == NonEmpty(ChunksOf(sOut))
        IN  /\ Len(cs) >= 2
            /\ \A j \in 1..Len(cs) : Len(cs[j]) <= sMax
            /\ \A j \in 1..(Len(cs) - 1) : cs[j][Len(cs[j])] = TOUTEN
            /\ cs[Len(cs)][Len(cs[Len(cs)])] = KUTEN

\* C9 witness: the three-clause sentence of the scenario, max_length = 20,
\* has been split into its three clauses
C9_Witness ==
    /\ sPc = "done" /\ sOp = "m1" /\ sMax = 20
    /\ sText = ScenarioSentence
    /\ CommaSentence(sText, sMax)
    /\ Len(ChunksOf(sOut)) = 3


\* C3: boilerplate detection over a page set of exactly one page returns an
\* empty boilerplate set, for every detector variant.
C3_SinglePageNoBoilerplate ==
    (pPc = "detected" /\ Len(pPages) = 1) => pRepeated = {}

\* the lines of the cleaned text of page p
OutLines(p) == Split(pClean[p], NL)

\* a line of the shape "- <number> -"
IsPnLine(l) == AdvSignature(l) = PnSignature

\* the pages that have such a line in their top window, and anywhere
PnTopPages ==
    {p \in 1..Len(pPages) : \E l \in Range(FirstK(pPages[p], 3)) : IsPnLine(l)}
PnPages ==
    {p \in 1..Len(pPages) : \E l \in Range(pPages[p]) : IsPnLine(l)}

\* C4: when a "- <number> -" line is in the top window of at least
\* ceil(0.5 * N) of N >= 2 pages, the detector reports its signature as
\* boilerplate and no cleaned page has a line with that signature.
C4_ThresholdDetectedAndRemoved ==
    (/\ pVariant = "adv" /\ pPc = "detected"
     /\ Len(pPages) >= 2
     /\ 2 * Cardinality(PnTopPages) >= Len(pPages)) =>
        /\ PnSignature \in pRepeated
        /\ PnSignature \in (pHeaders \cup pFooters)
        /\ \A p \in 1..Len(pClean) : \A l \in Range(OutLines(p)) : ~IsPnLine(l)

\* C4 witness: three pages, the line on top of exactly two of them, all
\* three cleaned
C4_Witness ==
    /\ pVariant = "adv" /\ pPc = "detected"
    /\ Len(pPages) = 3 /\ Len(pClean) = 3
    /\ Cardinality(PnTopPages) = 2 /\ Cardinality(PnPages) = 2
    /\ PnSignature \in pRepeated

\* C5 as stated: a "- <number> -" line on fewer than 0.5 * N pages is not
\* treated as boilerplate and is still in the cleaned output of every page
\* that had it.
C5_BelowThresholdRetained ==
    (/\ pVariant = "adv" /\ pPc = "detected"
     /\ 2 * Cardinality(PnPages) < Len(pPages)) =>
        /\ PnSignature \notin pRepeated
        /\ \A p \in 1..Len(pClean) :
               p \in PnPages => \E l \in Range(OutLines(p)) : IsPnLine(l)

\* C5 amended: a "- <number> -" line on fewer than 0.5 * N pages is absent
\* from the cleaned output of every page all the same: the page cleaner drops
\* every line of that shape as a page-number line.
C5_BelowThresholdStillRemoved ==
    (/\ pVariant = "adv" /\ pPc = "detected"
     /\ 2 * Cardinality(PnPages) < Len(pPages)) =>
        \A p \in 1..Len(pClean) : \A l \in Range(OutLines(p)) : ~IsPnLine(l)

\* C5 witness: the line is on one page of three, is not among the detected
\* patterns, and that page has been cleaned
C5_Witness ==
    /\ pVariant = "adv" /\ pPc = "detected"
    /\ Len(pPages) = 3 /\ PnPages = {1} /\ Len(pClean) >= 1
    /\ PnSignature \notin pRepeated
    /\ pClean[1] # <<>>

\* the lines of a sequence that are not blank, stripped
NonBlankStripped(lines) ==
    LET stripped == [j \in 1..Len(lines) |-> Strip(lines[j])]
    IN  SelectSeq(stripped, LAMBDA l : l # <<>>)

\* the body of scenario page p: what lies between its header and its footer
BodyIndices(p) == 2..(Len(pPages[p]) - 1)

\* line i of page p is ordinary prose: not structural, not a repetition of one
\* of the five lines before it, and its signature is not a detected pattern
IsProseLine(p, i) ==
    /\ i \notin detect_sidebar_titles(pPages[p])
    /\ ~IsNearDuplicate(pPages[p], i)
    /\ AdvSignature(pPages[p][i]) \notin (pHeaders \cup pFooters)

\* the subsequence of the lines of page p with indices in I
LinesAt(p, I) ==
    LET lines == pPages[p]
        F[i \in 0..Len(lines)] ==
            IF i = 0 THEN <<>>
            ELSE IF i \in I THEN Append(F[i - 1], lines[i]) ELSE F[i - 1]
    IN  F[Len(lines)]

\* C6 as stated: in the ten-page scenario no cleaned page has the header line
\* or its page-number footer, and every body line is retained verbatim, in
\* order (modulo whitespace).
C6_ScenarioAllBodyRetained ==
    (pVariant = "adv" /\ pPc = "detected" /\ pPages \in ScenarioSets) =>
        \A p \in 1..Len(pClean) :
            /\ HeaderLine \notin Range(OutLines(p))
            /\ pPages[p][Len(pPages[p])] \notin Range(OutLines(p))
            /\ NonBlankStripped(OutLines(p))
                   = NonBlankStripped(LinesAt(p, BodyIndices(p)))

\* C6 amended: in the ten-page scenario no cleaned page has the header line or
\* its page-number footer, and the body lines that are ordinary prose (not
\* structural, not repeating one of the five lines before, signature not a
\* detected pattern) are retained verbatim, in order; nothing else is output.
C6_ScenarioProseRetained ==
    (pVariant = "adv" /\ pPc = "detected" /\ pPages \in ScenarioSets) =>
        \A p \in 1..Len(pClean) :
            /\ HeaderLine \notin Range(OutLines(p))
            /\ pPages[p][Len(pPages[p])] \notin Range(OutLines(p))
            /\ NonBlankStripped(OutLines(p))
                   = NonBlankStripped(LinesAt(p,
                         {i \in BodyIndices(p) : IsProseLine(p, i)}))

\* C6 witness: all ten pages cleaned, the header and footer patterns
\* detected, a page with two prose lines came out as exactly those lines
C6_Witness ==
    /\ pVariant = "adv" /\ pPc = "detected" /\ pPages \in ScenarioSets
    /\ Len(pClean) = ScenarioPages
    /\ normalize_for_comparison(HeaderLine) \in pHeaders
    /\ PnSignature \in pFooters
    /\ Len(pPages[1]) = 4
    /\ OutLines(1) = SubSeq(pPages[1], 2, 3)

\* C10: every classifier variant classifies 第3章 as structural and does not
\* classify the 24-character prose line that has 第3章 in mid-sentence as
\* structural.
C10_KeywordLineClassification ==
    cPc = "done" =>
        /\ cLine = ChapterLine => cResult
        /\ cLine = ProseWithKeyword => ~cResult

\* the signatures under which the detector of variant v counts the lines of
\* the top and bottom windows of one page
WindowSignatures(v, lines) ==
    IF v = "adv"
    THEN {AdvSignature(l) : l \in Range(FirstK(lines, 3) \o LastK(lines, 3))} \ {<<>>}
    ELSE {Strip(l) : l \in Range(FirstK(PageFile(lines), 5) \o LastK(PageFile(lines), 5))}
             \ {<<>>}

\* the pages that have the signature in one of their windows
PagesCounting(sig) ==
    {p \in 1..Len(pPages) : sig \in WindowSignatures(pVariant, pPages[p])}

\* C16: each page contributes at most one count to a signature, so no
\* signature's count exceeds the number of pages that have it in a window (nor
\* the number of pages).
C16_OneCountPerPage ==
    pPc = "detected" =>
        \A sig \in DOMAIN pCounts :
            /\ pCounts[sig] <= Cardinality(PagesCounting(sig))
            /\ pCounts[sig] <= Len(pPages)

\* C17: a signature seen on only one page is never reported as boilerplate,
\* by any detector variant and for every page-set size.
C17_ThresholdAtLeastTwo ==
    pPc = "detected" =>
        \A sig \in pRepeated : Cardinality(PagesCounting(sig)) >= 2

\* the number of pages with the signature in the top / bottom window
TopCount(sig) ==
    Cardinality({p \in 1..Len(pPages) :
        \E l \in Range(FirstK(pPages[p], 3)) : AdvSignature(l) = sig})
BottomCount(sig) ==
    Cardinality({p \in 1..Len(pPages) :
        \E l \in Range(LastK(pPages[p], 3)) : AdvSignature(l) = sig})

\* C18: identify_header_footer_patterns puts every qualifying signature in
\* exactly one of the header and footer sets: in the header set when its
\* top-window page count strictly exceeds its bottom-window page count,
\* otherwise (ties included) in the footer set.
C18_HeaderXorFooter ==
    (pVariant = "adv" /\ pPc = "detected") =>
        /\ pHeaders \cap pFooters = {}
        /\ pHeaders \cup pFooters = pRepeated
        /\ \A sig \in pRepeated :
               /\ TopCount(sig) > BottomCount(sig) => sig \in pHeaders
               /\ TopCount(sig) <= BottomCount(sig) => sig \in pFooters

\* C18 witness: a tie that went to the footer set next to a signature with
\* more top than bottom occurrences that went to the header set
C18_Witness ==
    /\ pVariant = "adv" /\ pPc = "detected"
    /\ \E sig \in pFooters : TopCount(sig) = BottomCount(sig) /\ TopCount(sig) > 0
    /\ \E sig \in pHeaders : TopCount(sig) > BottomCount(sig) /\ BottomCount(sig) > 0

\* C19: after clean_text(text, aggressive=True) no output line has one or more
\* ordinary spaces directly between two characters of the Japanese ranges.
C19_NoSpaceBetweenJapanese ==
    (nPc \in {"once", "twice"} /\ nOp = "cleanT") =>
        ~ \E i \in 1..Len(nOnce) : \E j \in (i + 2)..Len(nOnce) :
              /\ nOnce[i] \in JpChars
              /\ nOnce[j] \in JpChars
              /\ \A k \in (i + 1)..(j - 1) : nOnce[k] = SP

\* characters that are punctuation or whitespace, not sentence text
NotSentenceText == SentenceFinal \cup {TOUTEN} \cup PyWhitespace

\* C20: no chunk of method1_punctuation_advanced has a sentence-final mark
\* followed by further sentence text.
C20_BreakAfterSentenceFinal ==
    (sPc = "done" /\ sOp = "m1") =>
        \A c \in 1..Len(sChunks) :
            ~ \E i \in 1..Len(sChunks[c]) : \E j \in (i + 1)..Len(sChunks[c]) :
                  /\ sChunks[c][i] \in SentenceFinal
                  /\ sChunks[c][j] \notin NotSentenceText

\* C14: when the analyzer is unavailable (self.mecab is None),
\* method3_morphological(text, max_length) returns exactly
\* method1_punctuation_advanced(text, max_length).
C14_FallbackToMethod1 ==
    (sPc = "done" /\ sOp = "m3" /\ sMecab = "none") =>
        sOut = method1_punctuation_advanced(sText, sMax)

\* C14 witness: a call without analyzer that returned more than one chunk
C14_Witness ==
    /\ sPc = "done" /\ sOp = "m3" /\ sMecab = "none"
    /\ Len(sChunks) >= 2
    /\ sOut = method1_punctuation_advanced(sText, sMax)

\* the page indices of the entries written, in the order written
EmittedIndices == [j \in 1..Len(bOut) |-> bOut[j].index]

\* C11: the page indices emitted are a subsequence of the input page indices
\* in the same order: each is an index of the batch, none is emitted twice or
\* out of order.
C11_OutputOrderPreserved ==
    /\ \A j \in 1..Len(bOut) : EmittedIndices[j] \in 1..Len(bFiles)
    /\ \A j \in 1..Len(bOut) : \A k \in (j + 1)..Len(bOut) :
           EmittedIndices[j] < EmittedIndices[k]

\* C11 witness: a finished run over three pages that wrote pages 1 and 3 and
\* left page 2 out
C11_Witness ==
    /\ bPc = "done" /\ Len(bFiles) = 3
    /\ EmittedIndices = <<1, 3>>

\* the run is a batch driver's: pdf_to_txt_advanced.main,
\* complete_pdf_processor.main or process_directory, not
\* pdf_header_remover.main on one file
IsBatchRun == bDriver = "hfr" => ~bArgs.single

\* C12: no output entry is ever written with empty content, in every batch
\* driver.
C12_NoEmptyEntry ==
    IsBatchRun => \A j \in 1..Len(bOut) : Strip(bOut[j].content) # <<>>

\* C13: given the boilerplate set, the cleaned result of each page is the
\* same whatever the order in which the pages are cleaned: it is what a
\* cleaning call on that page alone gives, and the boilerplate set stays what
\* the detector computed.
C13_CleanOrderIndependent ==
    bPc = "detected" =>
        /\ bDriver = "adv" =>
               [headers |-> bHeaders, footers |-> bFooters]
                   = AdvPatterns(bArgs.auto_detect, PagesData(bFiles))
        /\ bDriver = "hfr" => bRepeated = detect_repeated_lines(TextFiles(bFiles))
        /\ bDriver = "cpp" =>
               bRepeated = cpp_detect_repeated_patterns(TextFiles(bFiles))
        /\ \A p \in DOMAIN bClean :
               bClean[p] = DriverClean(bDriver, bArgs, bFiles, p, bRepeated, bHeaders,
                                       bFooters, <<>>).out

\* C13 witness: all six pages of a batch cleaned, the last call having left a
\* prev_line that would have changed the result of another page
C13_Witness ==
    /\ bPc = "detected" /\ Len(bFiles) = ParScenarioPages
    /\ DOMAIN bClean = 1..Len(bFiles)
    /\ \E q \in DOMAIN bClean :
           DriverClean(bDriver, bArgs, bFiles, q, bRepeated, bHeaders, bFooters, bCarry).out
               # bClean[q]

\* C15: a failure on one page never aborts the others: when the run ends the
\* failing pages are reported and passed over, and every other page was
\* processed and (unless omitted as empty) emitted.
C15_NoPartialBatchFailure ==
    (IsBatchRun /\ bPc \in {"done", "aborted"}) =>
        \A p \in 1..Len(bFiles) :
            IF bFiles[p].ok
            THEN /\ p \in DOMAIN bClean
                 /\ DriverEmits(bDriver, bClean[p]) =>
                        \E j \in 1..Len(bOut) : bOut[j].index = p
            ELSE /\ p \in bFailed
                 /\ \A j \in 1..Len(bOut) : bOut[j].index # p

\* the chunks a segmenter call emitted: the returned text split at its line
\* breaks, or the list split_text_naturally returns
EmittedChunks == IF sOp = "nat" THEN sChunks ELSE ChunksOf(sOut)

\* C21: for every segmentation strategy the emitted sequence of chunks has no
\* chunk that is empty after trimming.
C21_NoEmptyChunk ==
    sPc = "done" =>
        \A j \in 1..Len(EmittedChunks) : Strip(EmittedChunks[j]) # <<>>

RECURSIVE ChunksCover(_, _, _, _)
\* the text from position i on is the chunks from chunk j on, in order, with
\* nothing but whitespace before, between and after them
ChunksCover(text, i, chunks, j) ==
    IF j > Len(chunks)
    THEN \A k \in i..Len(text) : text[k] \in PyWhitespace
    ELSE IF chunks[j] = <<>> THEN ChunksCover(text, i, chunks, j + 1)
    ELSE IF i <= Len(text) /\ text[i] \in PyWhitespace
              /\ chunks[j][1] \notin PyWhitespace
    THEN ChunksCover(text, i + 1, chunks, j)
    ELSE /\ i + Len(chunks[j]) - 1 <= Len(text)
         /\ SubSeq(text, i, i + Len(chunks[j]) - 1) = chunks[j]
         /\ ChunksCover(text, i + Len(chunks[j]), chunks, j + 1)

\* C29: method1_punctuation_advanced loses, duplicates and reorders no text:
\* the chunks it emits, concatenated in order, are the input text with only
\* whitespace at chunk edges removed.
C29_Method1KeepsText ==
    (sPc = "done" /\ sOp = "m1") => ChunksCover(sText, 1, ChunksOf(sOut), 1)

\* C29 witness: an oversized sentence without comma was split at a connective,
\* its remainder carried over into a later chunk, and whitespace at a chunk
\* edge was removed
C29_Witness ==
    /\ sPc = "done" /\ sOp = "m1"
    /\ TOUTEN \notin Range(sText)
    /\ \E j \in 1..(Len(sChunks) - 1) :
           /\ Len(sChunks[j]) > 2
           /\ SubSeq(sChunks[j], Len(sChunks[j]) - 1, Len(sChunks[j])) = <<12363, 12425>>
           /\ sChunks[j + 1] # <<>>
    /\ Len(Flatten(sChunks)) < Len(sText)
    /\ ChunksCover(sText, 1, ChunksOf(sOut), 1)

\* C22: in method4_semantic_breaks every line shorter than 10 characters that
\* the break insertion produces (the text had no line break of its own) is
\* merged into the line that follows it, so no output line other than the
\* last is shorter than 10 characters.
C22_ShortLinesMergedForward ==
    (sPc = "done" /\ sOp = "m4" /\ NL \notin Range(sText)) =>
        \A j \in 1..(Len(ChunksOf(sOut)) - 1) : Len(ChunksOf(sOut)[j]) >= 10

\* C23: method6_clean_only adds line breaks to a line only when the line is
\* longer than 80 characters, and then the line is broken after each 。, ！
\* and ？ it contains; a line of at most 80 characters comes out as it is.
C23_LongLinesBrokenAtSentenceEnds ==
    (sPc = "done" /\ sOp = "m6") =>
        LET lines == Split(clean_text(remove_meaningless_spaces(sText), TRUE), NL)
        IN  /\ Len(sChunks) = Len(lines)
            /\ \A j \in 1..Len(lines) :
                   IF Len(Strip(lines[j])) <= 80
                   THEN sChunks[j] = Strip(lines[j])
                   ELSE \A i \in 1..(Len(sChunks[j]) - 1) :
                            sChunks[j][i] \in SentenceFinal => sChunks[j][i + 1] = NL

\* C24: the output of clean_text never has two or more consecutive blank
\* lines, that is no run of three or more line breaks, for either value of
\* the aggressive flag.
C24_NoConsecutiveBlankLines ==
    (nPc \in {"once", "twice"} /\ nOp \in {"cleanT", "cleanF"}) =>
        ~ \E i \in 1..(Len(nOnce) - 2) :
              nOnce[i] = NL /\ nOnce[i + 1] = NL /\ nOnce[i + 2] = NL

\* the lines of a text that have content, in order
ContentLines(text) == SelectSeq(Split(text, NL), LAMBDA l : Strip(l) # <<>>)

\* the length of the run of ideographic spaces a line begins with
Indentation(line) == Len(line) - Len(LStripSet(line, {IDSP}))

\* C25: with aggressive=False clean_text preserves indentation: the output
\* line that comes from an input line beginning with n ideographic spaces
\* followed by content begins with exactly n ideographic spaces, the first
\* line of the text included.
C25_IndentationPreserved ==
    (nPc \in {"once", "twice"} /\ nOp = "cleanF" /\ CR \notin Range(nIn)) =>
        /\ Len(ContentLines(nOnce)) = Len(ContentLines(nIn))
        /\ \A k \in 1..Len(ContentLines(nIn)) :
               Indentation(ContentLines(nOnce)[k]) = Indentation(ContentLines(nIn)[k])

\* the lines of the cleaned text of page p of the batch
CleanLines(p) == FileLines(bClean[p])

\* C26: the page cleaner's output never has two consecutive blank lines,
\* whatever lines it removed between blank lines.
C26_NoConsecutiveBlankInPage ==
    \A p \in DOMAIN bClean :
        \A j \in 1..(Len(CleanLines(p)) - 1) :
            ~(Strip(CleanLines(p)[j]) = <<>> /\ Strip(CleanLines(p)[j + 1]) = <<>>)

\* C26 witness: page 1 had blank lines above and below the running header and
\* below a chapter heading; it came out without them, with a blank line left
C26_Witness ==
    /\ bDriver = "hfr" /\ 1 \in DOMAIN bClean
    /\ bFiles[1].lines =
           RenderPage(<<"p2", "blank", "hdr", "blank", "ch", "blank", "same">>, 1)
    /\ HeaderLine \notin Range(CleanLines(1))
    /\ ChapterLine \notin Range(CleanLines(1))
    /\ \E j \in 1..Len(CleanLines(1)) : Strip(CleanLines(1)[j]) = <<>>

RECURSIVE SpacingKept(_, _, _, _, _)
\* the non-blank output lines from the k-th on are lines of the input after
\* index prev, verbatim and in order, and wherever a blank input line lies
\* between two of them that follow each other, a blank output line does too
\* (gap[k]: a blank output line lies before the k-th non-blank output line)
SpacingKept(input, out, gap, k, prev) ==
    IF k > Len(out) THEN TRUE
    ELSE \E i \in (prev + 1)..Len(input) :
             /\ input[i] = out[k]
             /\ (prev > 0 /\ \E b \in (prev + 1)..(i - 1) : Strip(input[b]) = <<>>)
                    => gap[k]
             /\ SpacingKept(input, out, gap, k + 1, i)

\* the indices of the non-blank lines of a sequence of lines
NonBlankAt(lines) ==
    LET F[i \in 0..Len(lines)] ==
            IF i = 0 THEN <<>>
            ELSE IF Strip(lines[i]) # <<>> THEN Append(F[i - 1], i) ELSE F[i - 1]
    IN  F[Len(lines)]

\* C27: the page cleaner preserves line order and paragraph spacing: the
\* retained non-blank lines are input lines, verbatim and in their order, and
\* two of them that a blank line separated in the input are separated by a
\* blank line in the output.
C27_OrderAndSpacingPreserved ==
    \A p \in DOMAIN bClean :
        LET at == NonBlankAt(CleanLines(p))
            out == [k \in 1..Len(at) |-> CleanLines(p)[at[k]]]
            gap == [k \in 1..Len(at) |-> k > 1 /\ at[k] > at[k - 1] + 1]
        IN  SpacingKept(bFiles[p].lines, out, gap, 1, 0)

\* the lines of a page as the detector of variant v reads them
DetectorLines(v, lines) == IF v = "adv" THEN lines ELSE PageFile(lines)

\* the signatures of the first k and the last k non-empty lines of a page
NonEmptyWindowSignatures(v, lines) ==
    LET k == IF v = "adv" THEN 3 ELSE 5
        nonempty == SelectSeq(DetectorLines(v, lines), LAMBDA l : Strip(l) # <<>>)
        window == FirstK(nonempty, k) \o LastK(nonempty, k)
    IN  IF v = "adv" THEN {AdvSignature(l) : l \in Range(window)}
        ELSE {Strip(l) : l \in Range(window)}

\* C28: the candidates of a page are its first k and last k non-empty lines:
\* every one of them is counted by the detector, the header that is the first
\* non-empty line of a page included, however many blank lines precede it.
C28_WindowOfNonEmptyLines ==
    pPc = "detected" =>
        \A p \in 1..Len(pPages) :
            \A sig \in NonEmptyWindowSignatures(pVariant, pPages[p]) :
                /\ sig \in DOMAIN pCounts
                /\ pCounts[sig] >=
                       Cardinality({q \in 1..Len(pPages) :
                           sig \in NonEmptyWindowSignatures(pVariant, pPages[q])})

\* line j of the file lies in a skipped block: a marker line precedes it and
\* no line starting with ten '=' lies between the two
InSkippedBlock(lines, j) ==
    \E m \in 1..(j - 1) :
        /\ IsMarkerLine(lines[m])
        /\ \A t \in (m + 1)..(j - 1) : ~StartsWith(lines[t], TenEquals)

RECURSIVE RetainedLines(_, _)
\* the first n lines of the file without the marker lines and the lines of
\* the skipped blocks, in order
RetainedLines(lines, n) ==
    IF n = 0 THEN <<>>
    ELSE IF IsMarkerLine(lines[n]) \/ InSkippedBlock(lines, n)
         THEN RetainedLines(lines, n - 1)
         ELSE Append(RetainedLines(lines, n - 1), lines[n])

\* C30: at every point of the scan of process_file the lines kept so far are,
\* in order, exactly the scanned lines that are neither marker lines nor lie
\* after a marker line up to and including the next line starting with ten
\* '='; the skip flag is set exactly when the next line lies in such a block.
\* So a line is dropped only for one of these two reasons, a line after the
\* terminator is retained until another marker line occurs, and a line
\* starting with '=' outside a skipped block is retained.
C30_PreambleFilter ==
    (fCaller = "process_file" /\ fPc \in {"filter", "done"}) =>
        /\ fFiltered = RetainedLines(fLines, fNext - 1)
        /\ fNext <= Len(fLines) => (fSkip <=> InSkippedBlock(fLines, fNext))

\* process_file skipped a block up to its terminator and retained the lines
\* of '=' after it, a terminator-like line included
C30_Witness ==
    /\ fCaller = "process_file" /\ fPc = "done"
    /\ fLines = << PdfFileMark \o <<SP, 97, 46, 112, 100, 102>>, TenEquals \o <<61, 61>>,
                   TenEquals \o <<61, 61>>, [j \in 1..5 |-> 61] >>
    /\ fFiltered = << TenEquals \o <<61, 61>>, [j \in 1..5 |-> 61] >>

====
